---- MODULE Spec2Model ----
(***************************************************************************)
(* A model of the aircraft-fleet ETL pipeline: the dimension registries    *)
(* of dw.py (pygrametl CachedDimension objects), the business-rule         *)
(* cleaners and the fact aggregators of transform.py, the loaders of       *)
(* load.py and the coordinator of etl_control_flow.py.                     *)
(*                                                                         *)
(* Specifications:                                                         *)
(*   SpecRegistry  ensure / lookup calls on the four dimensions            *)
(*   SpecRules     the cleaning rules applied to drawn record sets         *)
(*   SpecAgg       dimension loads followed by one fact aggregation        *)
(*   SpecLoad      calls of the bulk loader of the fact tables             *)
(*   Spec          the coordinator run of etl_control_flow.py              *)
(***************************************************************************)
EXTENDS Integers, Sequences, FiniteSets, TLC

VARIABLES
    dw,         \* the DW object: one registry per dimension (<<>>: not created)
    calls,      \* SpecRegistry: the ensure/lookup calls made so far, per dimension
    heap,       \* the DataFrame objects alive, by reference (1..Len(heap))
    flights_df, \* reference held by the caller's flights_df name (0: unbound)
    reports_df, \* reference held by postflightreports_df (0: unbound)
    maintenance_df, \* reference held by maintenance_df (0: unbound)
    csv,        \* the aircraft CSV file and the CSVSource iterators opened on it
    passes,     \* rule passes (SpecLoad: loader calls) made so far, in order
    facts,      \* what the aggregator run yielded (SpecLoad: the batch last handed over)
    pc,         \* position of the running script / harness
    run,        \* Spec: the coordinator's own bookkeeping (cleaning flag, exception, ...)
    db          \* the warehouse's fact tables and the views registered on the connection

vars == <<dw, calls, heap, flights_df, reports_df, maintenance_df, csv, passes, facts, pc, run, db>>

(***************************************************************************)
(* Bounds of the model.                                                    *)
(***************************************************************************)
MaxCalls == 3       \* SpecRegistry: ensure/lookup calls in one behaviour
MaxFlights == 2     \* rows of a drawn flights frame (full value pool)
MaxT == 2           \* drawn departures and arrivals are 1..MaxT, or NaT
ChainLen == 3       \* rows of a drawn one-aircraft chain of flights
MaxPasses == 2      \* SpecRules: rule passes applied in a row
MaxReports == 2     \* rows of a drawn post-flight reports frame
MaxAggRows == 2     \* SpecAgg: rows of a drawn frame handed to an aggregator

(***************************************************************************)
(* Values.                                                                 *)
(***************************************************************************)
\* Python None as a dimension key (CachedDimension's defaultidvalue, which
\* DW.__init__ leaves at its default).
NoneValue == 0
\* pandas NaT / a null timestamp.
NaT == -1

(***************************************************************************)
(* dw.py: the four CachedDimension registries.                             *)
(***************************************************************************)
DimNames == {"aircrafts_dim", "dates_dim", "months_dim", "reporters_dim"}

\* lookupatts of each CachedDimension.
lookupatts(d) ==
    CASE d = "aircrafts_dim" -> <<"Aircraft_Registration_Code">>
      [] d = "dates_dim"     -> <<"Full_Date">>
      [] d = "months_dim"    -> <<"Month_Num", "Year">>
      [] d = "reporters_dim" -> <<"Reporter_Class", "Report_Airport_Code">>

\* A registry as DW.__init__ leaves it on a fresh database: nothing cached,
\* nothing stored, the id sequence at MAX(key) = 0.
EmptyDimension == [vals2key |-> <<>>, maxid |-> 0]

\* The tuple of a row's lookup attributes: the natural key.
searchtuple(d, row) == [i \in 1..Len(lookupatts(d)) |-> row[lookupatts(d)[i]]]

\* Whether the row carries every lookup attribute (else lookup raises KeyError).
HasLookupAtts(d, row) ==
    \A i \in 1..Len(lookupatts(d)) : lookupatts(d)[i] \in DOMAIN row

\* CachedDimension.lookup(row): the key stored for the row's natural key;
\* defaultidvalue (None) when no row matches; KeyError when the row lacks a
\* lookup attribute.
lookup(dim, d, row) ==
    IF ~HasLookupAtts(d, row)
    THEN [raised |-> TRUE, value |-> NoneValue]
    ELSE IF searchtuple(d, row) \in DOMAIN dim.vals2key
         THEN [raised |-> FALSE, value |-> dim.vals2key[searchtuple(d, row)]]
         ELSE [raised |-> FALSE, value |-> NoneValue]

\* CachedDimension.insert(row): the next id of the sequence is assigned to the
\* row's natural key.
insert(dim, d, row) ==
    [vals2key |-> dim.vals2key @@ (searchtuple(d, row) :> (dim.maxid + 1)),
     maxid    |-> dim.maxid + 1]

\* Mutants of ensure: insert without looking up first; reuse the last id.
ensure_always_inserts(dim, d, row) ==
    [dim |-> [vals2key |-> [k \in DOMAIN dim.vals2key \cup {searchtuple(d, row)} |->
                               IF k = searchtuple(d, row) THEN dim.maxid + 1
                               ELSE dim.vals2key[k]],
              maxid |-> dim.maxid + 1],
     key |-> dim.maxid + 1]

ensure_reuses_id(dim, d, row) ==
    IF searchtuple(d, row) \in DOMAIN dim.vals2key
    THEN [dim |-> dim, key |-> dim.vals2key[searchtuple(d, row)]]
    ELSE [dim |-> [vals2key |-> dim.vals2key @@
                                (searchtuple(d, row) :> (IF dim.maxid = 0 THEN 1 ELSE dim.maxid)),
                   maxid |-> IF dim.maxid = 0 THEN 1 ELSE dim.maxid],
          key |-> IF dim.maxid = 0 THEN 1 ELSE dim.maxid]

\* CachedDimension.ensure(row): lookup, and insert when nothing was found.
\* Yields the registry afterwards and the key returned.
ensure(dim, d, row) ==
    LET found == lookup(dim, d, row).value
    IN  IF found # NoneValue
        THEN [dim |-> dim, key |-> found]
        ELSE [dim |-> insert(dim, d, row), key |-> dim.maxid + 1]

(***************************************************************************)
(* Rows offered to the dimensions.                                         *)
(***************************************************************************)
Pad2(n) == IF n < 10 THEN "0" \o ToString(n) ELSE ToString(n)

\* transform.build_dateCode: YYYY-MM-DD, month and day zero-padded.
build_dateCode(date) ==
    ToString(date.year) \o "-" \o Pad2(date.month) \o "-" \o Pad2(date.day)

AircraftRow(code, model, manufacturer) ==
    [Aircraft_Registration_Code  |-> code,
     Manufacturer_Serial_Number  |-> "MSN-" \o code,
     Aircraft_Model              |-> model,
     Aircraft_Manufacturer_Class |-> manufacturer]

DateRow(date) ==
    [Full_Date |-> build_dateCode(date), Day_Num |-> date.day,
     Month_Num |-> date.month, Year |-> date.year]

MonthRow(m, y) == [Month_Num |-> m, Year |-> y]

ReporterRow(class, airport) ==
    [Reporter_Class |-> class, Report_Airport_Code |-> airport]

\* SpecRegistry: the rows the callers may offer (two rows of AB1 differ in a
\* descriptive attribute only).
RegistryRows(d) ==
    CASE d = "aircrafts_dim" ->
            {AircraftRow("AB1", "A320", "Airbus"), AircraftRow("AB1", "A321", "Airbus"),
             AircraftRow("AB2", "B737", "Boeing")}
      [] d = "dates_dim" ->
            {DateRow([year |-> 2024, month |-> 1, day |-> 15]),
             DateRow([year |-> 2024, month |-> 2, day |-> 1])}
      [] d = "months_dim" -> {MonthRow(1, 2024), MonthRow(2, 2024)}
      [] d = "reporters_dim" -> {ReporterRow("PIREP", "BCN"), ReporterRow("MAREP", "BCN")}

FreshDW == [d \in DimNames |-> EmptyDimension]

NoFacts == [kind |-> "none", rows |-> <<>>, skipped |-> 0]

\* The fact tables of the schema, by the names of the DW's FactTable objects.
FactTables == {"Flight_operations_Daily", "Aircraft_Monthly_Summary", "Logbooks"}

\* The warehouse after the DDL: empty fact tables, no view registered.
EmptyDB == [tables |-> [t \in FactTables |-> <<>>], views |-> {}]
NoRun == [job |-> "none", cleaning |-> FALSE, exc |-> "none", at |-> "none",
          open |-> FALSE, closed |-> FALSE, loaded |-> {}, loads |-> <<>>]

(***************************************************************************)
(* SpecRegistry: any sequence of ensure and lookup calls (load.py's        *)
(* load_* loops call ensure once per row; the aggregators call lookup).    *)
(***************************************************************************)
TotalCalls == Len(calls["aircrafts_dim"]) + Len(calls["dates_dim"])
              + Len(calls["months_dim"]) + Len(calls["reporters_dim"])

InitRegistry ==
    /\ dw = FreshDW
    /\ calls = [d \in DimNames |-> <<>>]
    /\ heap = <<>>
    /\ flights_df = 0
    /\ reports_df = 0
    /\ maintenance_df = 0
    /\ csv = <<>>
    /\ passes = <<>>
    /\ facts = NoFacts
    /\ pc = "registry"
    /\ run = NoRun
    /\ db = EmptyDB

EnsureCall ==
    \E d \in DimNames : \E row \in RegistryRows(d) :
        /\ pc = "registry"
        /\ TotalCalls < MaxCalls
        /\ LET e == ensure(dw[d], d, row)
           IN  /\ dw' = [dw EXCEPT ![d] = e.dim]
               /\ calls' = [calls EXCEPT ![d] = Append(@,
                     [op |-> "ensure", key |-> searchtuple(d, row), raised |-> FALSE,
                      res |-> e.key,
                      before |-> Cardinality(DOMAIN dw[d].vals2key),
                      after |-> Cardinality(DOMAIN e.dim.vals2key)])]
        /\ UNCHANGED <<heap, flights_df, reports_df, maintenance_df, csv, passes, facts, pc, run, db>>

LookupCall ==
    \E d \in DimNames : \E row \in RegistryRows(d) :
        /\ pc = "registry"
        /\ TotalCalls < MaxCalls
        /\ LET r == lookup(dw[d], d, row)
           IN  calls' = [calls EXCEPT ![d] = Append(@,
                     [op |-> "lookup", key |-> searchtuple(d, row), raised |-> r.raised,
                      res |-> r.value,
                      before |-> Cardinality(DOMAIN dw[d].vals2key),
                      after |-> Cardinality(DOMAIN dw[d].vals2key)])]
        /\ UNCHANGED <<dw, heap, flights_df, reports_df, maintenance_df, csv, passes, facts, pc, run, db>>

NextRegistry == EnsureCall \/ LookupCall

SpecRegistry == InitRegistry /\ [][NextRegistry]_vars

\* The ensure calls of one dimension's call log, as positions.
EnsureAt(d) == {i \in 1..Len(calls[d]) : calls[d][i].op = "ensure"}
LookupAt(d) == {i \in 1..Len(calls[d]) : calls[d][i].op = "lookup"}
EnsuredKeys(d) == {calls[d][i].key : i \in EnsureAt(d)}

\* C1: on one registry, a second ensure call with a natural key already
\* ensured returns the surrogate key the first call returned, and the registry
\* holds as many entries after the second call as before it.
C1_EnsureIdempotent ==
    \A d \in DimNames : \A i \in EnsureAt(d) : \A j \in EnsureAt(d) :
        (i < j /\ calls[d][i].key = calls[d][j].key)
            => /\ calls[d][j].res = calls[d][i].res
               /\ calls[d][j].after = calls[d][j].before
               /\ (j = i + 1 => calls[d][j].after = calls[d][i].after)

C1_Witness ==
    \E d \in DimNames : \E i \in EnsureAt(d) :
        /\ i + 1 \in EnsureAt(d)
        /\ calls[d][i].key = calls[d][i + 1].key
        /\ calls[d][i].res >= 1

\* C2: after N ensure calls with M distinct natural keys a registry holds
\* exactly M surrogate keys, pairwise distinct, and every call made with a
\* natural key returned the surrogate key the registry holds for it now.
C2_OneKeyPerNaturalKey ==
    \A d \in DimNames :
        LET held == dw[d].vals2key
            keys == {held[k] : k \in DOMAIN held}
        IN  /\ DOMAIN held = EnsuredKeys(d)
            /\ Cardinality(keys) = Cardinality(EnsuredKeys(d))
            /\ \A k1 \in DOMAIN held : \A k2 \in DOMAIN held :
                   held[k1] = held[k2] => k1 = k2
            /\ \A i \in EnsureAt(d) : held[calls[d][i].key] = calls[d][i].res
            /\ \A i \in LookupAt(d) :
                   calls[d][i].res # NoneValue
                       => held[calls[d][i].key] = calls[d][i].res

C2_Witness ==
    \E d \in DimNames :
        /\ Cardinality(EnsureAt(d)) = 3
        /\ Cardinality(EnsuredKeys(d)) = 2

\* C3: a lookup of a natural key never ensured fails (LookupError) instead
\* of returning a value, and a lookup of an ensured natural key returns the
\* surrogate key ensure returned for it.
C3_LookupContract ==
    \A d \in DimNames : \A j \in LookupAt(d) :
        LET earlier == {i \in EnsureAt(d) : i < j /\ calls[d][i].key = calls[d][j].key}
        IN  IF earlier = {}
            THEN calls[d][j].raised
            ELSE /\ ~calls[d][j].raised
                 /\ \A i \in earlier : calls[d][j].res = calls[d][i].res

(***************************************************************************)
(* Time.  A timestamp counts the seconds since 2023-01-01 00:00; NaT is    *)
(* the null timestamp.                                                     *)
(***************************************************************************)
SecondsPerDay == 24 * 60 * 60

IsLeap(y) == (y % 4 = 0 /\ y % 100 # 0) \/ y % 400 = 0

\* calendar.monthrange(year, month)[1]: the days of the month.
monthrange(y, m) ==
    CASE m \in {1, 3, 5, 7, 8, 10, 12} -> 31
      [] m \in {4, 6, 9, 11} -> 30
      [] OTHER -> IF IsLeap(y) THEN 29 ELSE 28

RECURSIVE DateFrom(_, _, _)
\* The date n days after the first of month m of year y.
DateFrom(y, m, n) ==
    IF n < monthrange(y, m)
    THEN [year |-> y, month |-> m, day |-> n + 1]
    ELSE DateFrom(IF m = 12 THEN y + 1 ELSE y, IF m = 12 THEN 1 ELSE m + 1,
                  n - monthrange(y, m))

RECURSIVE DaysBefore(_, _)
\* The days from 2023-01-01 to the first of month m of year y.
DaysBefore(y, m) ==
    IF y = 2023 /\ m = 1 THEN 0
    ELSE LET py == IF m = 1 THEN y - 1 ELSE y
             pm == IF m = 1 THEN 12 ELSE m - 1
         IN  DaysBefore(py, pm) + monthrange(py, pm)

\* Series.dt: the calendar date of a timestamp.
DateOf(t) == DateFrom(2023, 1, t \div SecondsPerDay)
DayOf(t) == t \div SecondsPerDay

\* The timestamp of a date at hh:mm.
At(y, m, d, hh, mm) ==
    (DaysBefore(y, m) + d - 1) * SecondsPerDay + (hh * 60 + mm) * 60

(***************************************************************************)
(* Records and DataFrames.  A DataFrame is an object on the heap, held by  *)
(* reference; its value is the sequence of its rows in index order.        *)
(***************************************************************************)
Flight(id, reg, cancelled, sdep, sarr, adep, aarr, code) ==
    [id |-> id, aircraftregistration |-> reg, cancelled |-> cancelled,
     scheduleddeparture |-> sdep, scheduledarrival |-> sarr,
     actualdeparture |-> adep, actualarrival |-> aarr, delaycode |-> code]

Report(pfrid, reg, reportingdate, class, place) ==
    [pfrid |-> pfrid, aircraftregistration |-> reg, reportingdate |-> reportingdate,
     reporteurclass |-> class, executionplace |-> place]

Maintenance(reg, sdep, sarr, programmed) ==
    [aircraftregistration |-> reg, scheduleddeparture |-> sdep,
     scheduledarrival |-> sarr, programmed |-> programmed]

\* A row of aircraft-manufaturerinfo-lookup.csv.
CsvAircraft(code, model, manufacturer) ==
    [aircraft_reg_code |-> code, manufacturer_serial_number |-> "MSN-" \o code,
     aircraft_model |-> model, aircraft_manufacturer |-> manufacturer]

\* extract.get_aircraft_manufacturer_info(): a new CSVSource over the file,
\* an iterator positioned before its first row.
get_aircraft_manufacturer_info(file) == [rows |-> file, pos |-> 0]

\* Mutant of DataFrame_copy: the same object is handed back.
DataFrame_alias(h, r) == [heap |-> h, ref |-> r]

\* DataFrame.copy(): a new object with the same rows.
DataFrame_copy(h, r) == [heap |-> Append(h, h[r]), ref |-> Len(h) + 1]

(***************************************************************************)
(* transform.check_and_fix_1st_BR                                          *)
(***************************************************************************)
\* cond: both timestamps present and arrival before departure.
br1_cond(row) ==
    /\ row.actualarrival # NaT
    /\ row.actualdeparture # NaT
    /\ row.actualarrival < row.actualdeparture

\* Mutant of swap_values: the assignment aligns on the column labels, so each
\* column receives its own values back.
swap_aligned(row) == row

\* df.loc[cond, [arr, dep]] = df.loc[cond, [dep, arr]].values
swap_values(row) ==
    [row EXCEPT !.actualarrival = row.actualdeparture,
                !.actualdeparture = row.actualarrival]

\* Yields the heap afterwards and the reference returned.
check_and_fix_1st_BR(h, r) ==
    LET c  == DataFrame_copy(h, r)
        df == c.heap[c.ref]
    IN  [heap |-> [c.heap EXCEPT ![c.ref] =
                      [i \in 1..Len(df) |->
                          IF br1_cond(df[i]) THEN swap_values(df[i]) ELSE df[i]]],
         ref |-> c.ref]

(***************************************************************************)
(* transform.check_and_fix_2nd_BR                                          *)
(***************************************************************************)
\* The registration codes in their string order.
RegOrder == <<"AB1", "AB2", "AB3", "AB4", "AB5", "AB6", "AB7", "AB8", "AB9", "XX9">>
RegRank(reg) == CHOOSE i \in 1..Len(RegOrder) : RegOrder[i] = reg

\* Row a sorts strictly before row b by [aircraftregistration,
\* actualdeparture], nulls last.
by_before(a, b) ==
    \/ RegRank(a.aircraftregistration) < RegRank(b.aircraftregistration)
    \/ /\ a.aircraftregistration = b.aircraftregistration
       /\ a.actualdeparture # NaT
       /\ (b.actualdeparture = NaT \/ a.actualdeparture < b.actualdeparture)

\* x placed into the sorted s after every row that does not sort after it.
insert_sorted(s, x) ==
    LET after == {i \in 1..Len(s) : by_before(x, s[i])}
        p == IF after = {} THEN Len(s) + 1
             ELSE CHOOSE i \in after : \A j \in after : i <= j
    IN  SubSeq(s, 1, p - 1) \o <<x>> \o SubSeq(s, p, Len(s))

\* Mutant of sort_values: the frame is left in index order.
sort_values_unsorted(s) == s

RECURSIVE sort_values(_)
\* df.sort_values(by=[...]): a stable sort on several columns.
sort_values(s) ==
    IF s = <<>> THEN <<>>
    ELSE insert_sorted(sort_values(SubSeq(s, 1, Len(s) - 1)), s[Len(s)])

\* groupby('aircraftregistration')['actualdeparture'].shift(-1) on the sorted
\* frame: the departure of the next row of the same aircraft, else null.
next_departure(df, i) ==
    IF i < Len(df) /\ df[i + 1].aircraftregistration = df[i].aircraftregistration
    THEN df[i + 1].actualdeparture
    ELSE NaT

\* Mutant of overlap_cond: an arrival equal to the next departure overlaps too.
overlap_cond_ge(df, i) ==
    /\ df[i].actualarrival # NaT
    /\ next_departure(df, i) # NaT
    /\ df[i].actualarrival >= next_departure(df, i)

\* overlap_cond: arrival after the next departure (false on a null side).
overlap_cond(df, i) ==
    /\ df[i].actualarrival # NaT
    /\ next_departure(df, i) # NaT
    /\ df[i].actualarrival > next_departure(df, i)

\* Mutant of NotCancelled: the cancelled flights stay in the frame compared.
NotCancelled_any(row) == TRUE

\* flights_df[~flights_df['cancelled']]
NotCancelled(row) == ~row.cancelled

ignored_flights_ids(rows) ==
    LET df == sort_values(SelectSeq(rows, NotCancelled))
    IN  {df[i].id : i \in {j \in 1..Len(df) : overlap_cond(df, j)}}

\* Yields the heap afterwards and the reference returned: a new frame, the
\* rows of the argument whose id is not ignored.
check_and_fix_2nd_BR(h, r) ==
    LET ignored == ignored_flights_ids(h[r])
        Kept(row) == row.id \notin ignored
    IN  [heap |-> Append(h, SelectSeq(h[r], Kept)), ref |-> Len(h) + 1]

(***************************************************************************)
(* transform.check_and_fix_3rd_BR                                          *)
(***************************************************************************)
\* Mutant of check_and_fix_3rd_BR: the invalid rows are returned.
check_and_fix_3rd_BR_invalid(h, r, aircrafts) ==
    LET aircraft_reg_codes ==
            {aircrafts.rows[i].aircraft_reg_code : i \in (aircrafts.pos + 1)..Len(aircrafts.rows)}
        Invalid(row) == row.aircraftregistration \notin aircraft_reg_codes
    IN  [heap |-> Append(h, SelectSeq(h[r], Invalid)), ref |-> Len(h) + 1,
         aircrafts |-> [aircrafts EXCEPT !.pos = Len(aircrafts.rows)]]

\* The set of valid codes is read off what the iterator still holds, which
\* exhausts it.  Yields the heap, the reference returned and the iterator.
check_and_fix_3rd_BR(h, r, aircrafts) ==
    LET aircraft_reg_codes ==
            {aircrafts.rows[i].aircraft_reg_code : i \in (aircrafts.pos + 1)..Len(aircrafts.rows)}
        Valid(row) == row.aircraftregistration \in aircraft_reg_codes
    IN  [heap |-> Append(h, SelectSeq(h[r], Valid)), ref |-> Len(h) + 1,
         aircrafts |-> [aircrafts EXCEPT !.pos = Len(aircrafts.rows)]]

(***************************************************************************)
(* When a rule raises instead of returning.                                *)
(***************************************************************************)
\* A row whose cancelled cell is null: the row holds no value for it.
NullCancelled(row) == [c \in DOMAIN row \ {"cancelled"} |-> row[c]]

\* ~flights_df['cancelled']: on a column that holds a null the column has
\* dtype object and the unary ~ of None raises TypeError.
raises_2nd_BR(h, r) ==
    \E i \in 1..Len(h[r]) : "cancelled" \notin DOMAIN h[r][i]

\* row['aircraft_reg_code'] for row in aircrafts: KeyError on a row of a file
\* whose header has no such column.
raises_3rd_BR(h, r, aircrafts) ==
    \E i \in (aircrafts.pos + 1)..Len(aircrafts.rows) :
        "aircraft_reg_code" \notin DOMAIN aircrafts.rows[i]

(***************************************************************************)
(* SpecRules: the rules applied, one pass after another, to a drawn set of *)
(* flights or of post-flight reports.                                      *)
(***************************************************************************)
TsDraw == {NaT} \cup 1..MaxT

\* Frames: rows are numbered by their position (ids are unique).
NumberFlights(f) ==
    [i \in 1..Len(f) |-> [f[i] EXCEPT !.id = i, !.scheduleddeparture = i,
                                      !.scheduledarrival = i + 1]]
NumberReports(f) == [i \in 1..Len(f) |-> [f[i] EXCEPT !.pfrid = i]]
NumberFlights0(f) == [i \in 1..Len(f) |-> [f[i] EXCEPT !.id = i]]

\* Drawn flights: every pair of timestamps for a live flight of AB1, and a
\* few shapes for a cancelled flight of AB1 and for a flight of AB2.
RulePool ==
    {Flight(0, "AB1", FALSE, 0, 0, d, a, "") : d \in TsDraw, a \in TsDraw}
    \cup {Flight(0, "AB1", TRUE, 0, 0, t[1], t[2], "") : t \in {<<NaT, NaT>>, <<1, 2>>, <<2, 1>>}}
    \cup {Flight(0, "AB2", FALSE, 0, 0, t[1], t[2], "") : t \in {<<1, 2>>, <<2, 1>>, <<NaT, 1>>}}

\* Drawn chains: live flights of one aircraft, no null timestamp; an
\* arrival is before, at or after any drawn departure.
ChainArrivals == 1..3
ChainPool ==
    {Flight(0, "AB1", FALSE, 0, 0, d, a, "") : d \in 1..MaxT, a \in ChainArrivals}

\* The flights of the overlap example: A 08:00-10:00, B 09:00-11:00,
\* C 11:30-13:00, one aircraft.
ExampleABC ==
    <<Flight(1, "AB1", FALSE, At(2024, 1, 15, 8, 0), At(2024, 1, 15, 10, 0),
             At(2024, 1, 15, 8, 0), At(2024, 1, 15, 10, 0), ""),
      Flight(2, "AB1", FALSE, At(2024, 1, 15, 9, 0), At(2024, 1, 15, 11, 0),
             At(2024, 1, 15, 9, 0), At(2024, 1, 15, 11, 0), ""),
      Flight(3, "AB1", FALSE, At(2024, 1, 15, 11, 30), At(2024, 1, 15, 13, 0),
             At(2024, 1, 15, 11, 30), At(2024, 1, 15, 13, 0), "")>>

\* The example with a cancelled flight K 09:30-12:00 of the same aircraft
\* recorded between A and B.
ExampleABCK ==
    <<ExampleABC[1],
      Flight(4, "AB1", TRUE, At(2024, 1, 15, 9, 30), At(2024, 1, 15, 12, 0),
             At(2024, 1, 15, 9, 30), At(2024, 1, 15, 12, 0), ""),
      ExampleABC[2], ExampleABC[3]>>

RuleFlightFrames ==
    UNION {{NumberFlights(f) : f \in [1..n -> RulePool]} : n \in 0..MaxFlights}
    \cup {NumberFlights(f) : f \in [1..ChainLen -> ChainPool]}
    \cup {ExampleABC, ExampleABCK}

RuleReportFrames ==
    UNION {{NumberReports(f) : f \in [1..n -> {Report(0, reg, 1, "PIREP", "BCN") : reg \in {"AB1", "AB2", "XX9"}}]}
           : n \in 0..MaxReports}

AircraftFiles ==
    {<<>>, <<CsvAircraft("AB1", "A320", "Airbus")>>,
     <<CsvAircraft("AB1", "A320", "Airbus"), CsvAircraft("AB2", "B737", "Boeing")>>,
     <<CsvAircraft("AB2", "B737", "Boeing"), CsvAircraft("AB2", "B737", "Boeing")>>}

NoCsv == [file |-> <<>>]

InitRules ==
    /\ dw = FreshDW
    /\ calls = [d \in DimNames |-> <<>>]
    /\ \/ /\ heap \in {<<f>> : f \in RuleFlightFrames}
          /\ flights_df = 1
          /\ reports_df = 0
          /\ csv = NoCsv
       \/ /\ heap \in {<<f>> : f \in RuleReportFrames}
          /\ flights_df = 0
          /\ reports_df = 1
          /\ csv \in {[file |-> a] : a \in AircraftFiles}
    /\ maintenance_df = 0
    /\ passes = <<>>
    /\ facts = NoFacts
    /\ pc = "rules"
    /\ run = NoRun
    /\ db = EmptyDB

\* One call of a rule: what was passed, what came back.
Pass(rule, h, arg, res) ==
    [rule |-> rule, arg |-> arg, ret |-> res.ref,
     input |-> h[arg], output |-> res.heap[res.ref]]

Apply_1st_BR ==
    /\ pc = "rules"
    /\ flights_df # 0
    /\ Len(passes) < MaxPasses
    /\ LET res == check_and_fix_1st_BR(heap, flights_df)
       IN  /\ heap' = res.heap
           /\ flights_df' = res.ref
           /\ passes' = Append(passes, Pass("BR1", heap, flights_df, res))
    /\ UNCHANGED <<dw, calls, reports_df, maintenance_df, csv, facts, pc, run, db>>

Apply_2nd_BR ==
    /\ pc = "rules"
    /\ flights_df # 0
    /\ Len(passes) < MaxPasses
    /\ LET res == check_and_fix_2nd_BR(heap, flights_df)
       IN  /\ heap' = res.heap
           /\ flights_df' = res.ref
           /\ passes' = Append(passes, Pass("BR2", heap, flights_df, res))
    /\ UNCHANGED <<dw, calls, reports_df, maintenance_df, csv, facts, pc, run, db>>

\* The rule is handed a CSVSource opened for this call.
Apply_3rd_BR ==
    /\ pc = "rules"
    /\ reports_df # 0
    /\ Len(passes) < MaxPasses
    /\ LET res == check_and_fix_3rd_BR(heap, reports_df,
                                       get_aircraft_manufacturer_info(csv.file))
       IN  /\ heap' = res.heap
           /\ reports_df' = res.ref
           /\ passes' = Append(passes, Pass("BR3", heap, reports_df, res))
    /\ UNCHANGED <<dw, calls, flights_df, maintenance_df, csv, facts, pc, run, db>>

NextRules == Apply_1st_BR \/ Apply_2nd_BR \/ Apply_3rd_BR

SpecRules == InitRules /\ [][NextRules]_vars

PassesOf(rule) == {i \in 1..Len(passes) : passes[i].rule = rule}

\* C6: Rule 1 swaps the two actual timestamps of exactly the flights that
\* have both and arrive before they depart, which then depart before they
\* arrive; every other flight comes back as it was; a second pass over the
\* result of a first changes nothing.
C6_Rule1SwapsOnce ==
    \A p \in PassesOf("BR1") :
        LET in == passes[p].input
            out == passes[p].output
        IN  /\ Len(out) = Len(in)
            /\ \A i \in 1..Len(in) :
                  IF /\ in[i].actualarrival # NaT
                     /\ in[i].actualdeparture # NaT
                     /\ in[i].actualarrival < in[i].actualdeparture
                  THEN /\ out[i].actualdeparture = in[i].actualarrival
                       /\ out[i].actualarrival = in[i].actualdeparture
                       /\ out[i].actualdeparture < out[i].actualarrival
                  ELSE out[i] = in[i]
            /\ (p > 1 /\ passes[p - 1].rule = "BR1" /\ passes[p - 1].ret = passes[p].arg)
                  => out = passes[p - 1].output

\* A second Rule 1 pass over a frame in which the first pass swapped a flight.
C6_Witness ==
    /\ Len(passes) = 2
    /\ passes[1].rule = "BR1"
    /\ passes[2].rule = "BR1"
    /\ passes[2].arg = passes[1].ret
    /\ \E i \in 1..Len(passes[1].input) :
          /\ passes[1].input[i].actualarrival = 1
          /\ passes[1].input[i].actualdeparture = 2
          /\ passes[1].output[i].actualarrival = 2
    /\ \E i \in 1..Len(passes[1].input) : passes[1].input[i].actualarrival = NaT

\* C7: Rule 1 returns the flights it was given, in the same order, each with
\* every field but the two actual timestamps unchanged and with the same two
\* timestamp values, and the frame the caller passed is as it was.
C7_Rule1FrameEffect ==
    \A p \in PassesOf("BR1") :
        LET in == passes[p].input
            out == passes[p].output
        IN  /\ Len(out) = Len(in)
            /\ \A i \in 1..Len(in) :
                  /\ out[i].id = in[i].id
                  /\ [out[i] EXCEPT !.actualarrival = in[i].actualarrival,
                                    !.actualdeparture = in[i].actualdeparture] = in[i]
                  /\ {out[i].actualarrival, out[i].actualdeparture}
                        = {in[i].actualarrival, in[i].actualdeparture}
            /\ heap[passes[p].arg] = in
            /\ passes[p].ret # passes[p].arg

\* Rule 1 has swapped one of two flights.
C7_Witness ==
    \E p \in PassesOf("BR1") :
        /\ Len(passes[p].input) = 2
        /\ passes[p].output # passes[p].input
        /\ heap[passes[p].arg] = passes[p].input

\* Rule 2, stated on the frame passed: position i precedes position j in
\* departure order (nulls last, equal departures in frame order).
Precedes(in, i, j) ==
    \/ /\ in[i].actualdeparture # NaT
       /\ (in[j].actualdeparture = NaT \/ in[i].actualdeparture < in[j].actualdeparture)
    \/ /\ in[i].actualdeparture = in[j].actualdeparture
       /\ i < j

\* The live flights of the aircraft of position i.
LiveMates(in, i) ==
    {j \in 1..Len(in) :
        ~in[j].cancelled /\ in[j].aircraftregistration = in[i].aircraftregistration}

\* j is the flight that follows i among the live flights of its aircraft.
Follows(in, i, j) ==
    /\ j \in LiveMates(in, i)
    /\ j # i
    /\ Precedes(in, i, j)
    /\ ~\E k \in LiveMates(in, i) : k # i /\ k # j /\ Precedes(in, i, k) /\ Precedes(in, k, j)

Overlapping(in, i) ==
    /\ ~in[i].cancelled
    /\ \E j \in 1..Len(in) :
          /\ Follows(in, i, j)
          /\ in[i].actualarrival # NaT
          /\ in[j].actualdeparture # NaT
          /\ in[i].actualarrival > in[j].actualdeparture

\* C8: Rule 2 drops exactly the live flights whose arrival is strictly after
\* the departure of the flight that follows them among the live flights of
\* the same aircraft in departure order; the other flights come back
\* unchanged and in order; the last flight of an aircraft is never dropped;
\* of A 08:00-10:00, B 09:00-11:00, C 11:30-13:00 only A is dropped.
C8_Rule2ExcludesEarlier ==
    \A p \in PassesOf("BR2") :
        LET in == passes[p].input
            out == passes[p].output
            kept == {i \in 1..Len(in) : ~Overlapping(in, i)}
        IN  /\ Len(out) = Cardinality(kept)
            /\ \A k \in 1..Len(out) :
                  \E i \in kept :
                      /\ out[k] = in[i]
                      /\ Cardinality({j \in kept : j <= i}) = k
            /\ \A i \in 1..Len(in) :
                  (~in[i].cancelled
                   /\ ~\E j \in LiveMates(in, i) : j # i /\ Precedes(in, i, j))
                      => i \in kept
            /\ in = ExampleABC => out = <<ExampleABC[2], ExampleABC[3]>>

\* Rule 2 has run on the example and dropped one flight of the three.
C8_Witness ==
    /\ Len(passes) = 1
    /\ passes[1].rule = "BR2"
    /\ passes[1].input = ExampleABC
    /\ Len(passes[1].output) = 2

\* C9: Rule 3 returns exactly the reports whose aircraft registration is in
\* the aircraft master list, in order: none outside the list is returned and
\* none inside the list is dropped.
C9_Rule3KeepsListed ==
    \A p \in PassesOf("BR3") :
        LET in == passes[p].input
            out == passes[p].output
            listed == {csv.file[i].aircraft_reg_code : i \in 1..Len(csv.file)}
            valid == {i \in 1..Len(in) : in[i].aircraftregistration \in listed}
        IN  /\ \A k \in 1..Len(out) : out[k].aircraftregistration \in listed
            /\ \A i \in valid : \E k \in 1..Len(out) : out[k] = in[i]
            /\ \A k \in 1..Len(out) : \E i \in valid : out[k] = in[i]
            /\ Len(out) = Cardinality(valid)

\* Rule 3 has dropped one report and kept another.
C9_Witness ==
    \E p \in PassesOf("BR3") :
        /\ Len(passes[p].input) = 2
        /\ Len(passes[p].output) = 1
        /\ passes[p].input[1].aircraftregistration = "XX9"
        /\ passes[p].output[1].aircraftregistration = "AB1"

(***************************************************************************)
(* Fact aggregations (transform.py).  Durations are held in seconds: FH is *)
(* in units of 1/3600 hour, ADIS, ADOSS and ADOSU in units of 1/86400 day. *)
(* A group key is held as the tuple of its columns' ranks in sort order.   *)
(***************************************************************************)
ClassOrder == <<"MAREP", "PIREP">>
PlaceOrder == <<"BCN", "MAD">>
ClassRank(c) == CHOOSE k \in 1..Len(ClassOrder) : ClassOrder[k] = c
PlaceRank(a) == CHOOSE k \in 1..Len(PlaceOrder) : PlaceOrder[k] = a

\* Series.dt.strftime('%Y-%m-%d').
strftime(t) ==
    LET d == DateOf(t)
    IN  ToString(d.year) \o "-" \o Pad2(d.month) \o "-" \o Pad2(d.day)

\* round(n / d) as Python rounds: halves go to the even neighbour.
round(n, d) ==
    LET q == n \div d
        r == n % d
    IN  IF 2 * r < d THEN q
        ELSE IF 2 * r > d THEN q + 1
        ELSE IF q % 2 = 0 THEN q ELSE q + 1

\* Mutant of sum: one row of the group stands for all of them.
sum_one(df, I, col) == IF I = {} THEN 0 ELSE df[CHOOSE i \in I : TRUE][col]

RECURSIVE sum(_, _, _)
\* The sum of a column over the rows of a group.
sum(df, I, col) ==
    IF I = {} THEN 0
    ELSE LET i == CHOOSE i \in I : TRUE
         IN  df[i][col] + sum(df, I \ {i}, col)

key_before(a, b) ==
    \E i \in 1..Len(a) : a[i] < b[i] /\ \A j \in 1..(i - 1) : a[j] = b[j]

RECURSIVE groupby(_)
\* DataFrame.groupby(columns): the distinct keys in sorted order.
groupby(K) ==
    IF K = {} THEN <<>>
    ELSE LET k == CHOOSE k \in K : \A o \in K \ {k} : key_before(k, o)
         IN  <<k>> \o groupby(K \ {k})

\* The generator's output: the rows yielded, in order, and the groups that
\* went to the except branch.
yielded(tries) ==
    LET ok(t) == ~t.raised
        no(t) == t.raised
        got == SelectSeq(tries, ok)
    IN  [rows |-> [i \in 1..Len(got) |-> got[i].row],
         skipped |-> Len(SelectSeq(tries, no))]

\* Mutant of flight_measures: a delay of 15 minutes already counts.
flight_measures_ge(row) ==
    LET is_cancelled == row.cancelled \/ row.actualdeparture = NaT
        duration == IF row.actualarrival # NaT /\ row.actualdeparture # NaT
                    THEN row.actualarrival - row.actualdeparture ELSE 0
        known == row.actualarrival # NaT /\ row.scheduledarrival # NaT
        arrival_delay == IF known THEN row.actualarrival - row.scheduledarrival ELSE 0
        is_delayed == row.delaycode # "" /\ known /\ arrival_delay >= 15 * 60
    IN  [FH       |-> IF is_cancelled THEN 0 ELSE duration,
         Takeoffs |-> IF is_cancelled THEN 0 ELSE 1,
         CFC      |-> IF is_cancelled THEN 1 ELSE 0,
         TDM      |-> IF is_delayed THEN arrival_delay ELSE 0,
         DFC      |-> IF is_delayed THEN 1 ELSE 0]

\* Mutant of flight_measures: a takeoff is counted by the cancelled flag
\* alone, a cancellation by the flag or a missing departure.
flight_measures_flag_takeoffs(row) ==
    LET is_cancelled == row.cancelled \/ row.actualdeparture = NaT
        duration == IF row.actualarrival # NaT /\ row.actualdeparture # NaT
                    THEN row.actualarrival - row.actualdeparture ELSE 0
        known == row.actualarrival # NaT /\ row.scheduledarrival # NaT
        arrival_delay == IF known THEN row.actualarrival - row.scheduledarrival ELSE 0
        is_delayed == row.delaycode # "" /\ known /\ arrival_delay > 15 * 60
    IN  [FH       |-> IF is_cancelled THEN 0 ELSE duration,
         Takeoffs |-> IF row.cancelled THEN 0 ELSE 1,
         CFC      |-> IF is_cancelled THEN 1 ELSE 0,
         TDM      |-> IF is_delayed THEN arrival_delay ELSE 0,
         DFC      |-> IF is_delayed THEN 1 ELSE 0]

\* The vectorised measures of one flight.
flight_measures(row) ==
    LET is_cancelled == row.cancelled \/ row.actualdeparture = NaT
        duration == IF row.actualarrival # NaT /\ row.actualdeparture # NaT
                    THEN row.actualarrival - row.actualdeparture ELSE 0
        known == row.actualarrival # NaT /\ row.scheduledarrival # NaT
        arrival_delay == IF known THEN row.actualarrival - row.scheduledarrival ELSE 0
        is_delayed == row.delaycode # "" /\ known /\ arrival_delay > 15 * 60
    IN  [FH       |-> IF is_cancelled THEN 0 ELSE duration,
         Takeoffs |-> IF is_cancelled THEN 0 ELSE 1,
         CFC      |-> IF is_cancelled THEN 1 ELSE 0,
         TDM      |-> IF is_delayed THEN arrival_delay ELSE 0,
         DFC      |-> IF is_delayed THEN 1 ELSE 0]

\* The groups of the daily aggregation, sorted: (dep_date_str, registration).
daily_key(row) == <<DayOf(row.scheduleddeparture), RegRank(row.aircraftregistration)>>
daily_grouped(flights) ==
    {i \in 1..Len(flights) : /\ flights[i].scheduleddeparture # NaT
                             /\ flights[i].aircraftregistration # ""}
daily_groups(flights) ==
    groupby({daily_key(flights[i]) : i \in daily_grouped(flights)})

get_flights_operations_daily(flights, dates_dim, aircrafts_dim) ==
    LET df == [i \in 1..Len(flights) |-> flight_measures(flights[i])]
        keys == daily_groups(flights)
        members(k) == {i \in daily_grouped(flights) : daily_key(flights[i]) = k}
        agg_df == [g \in 1..Len(keys) |->
                     [dep_date_str |-> strftime(keys[g][1] * SecondsPerDay),
                      aircraftregistration |-> RegOrder[keys[g][2]],
                      FH       |-> sum(df, members(keys[g]), "FH"),
                      Takeoffs |-> sum(df, members(keys[g]), "Takeoffs"),
                      CFC      |-> sum(df, members(keys[g]), "CFC"),
                      DFC      |-> sum(df, members(keys[g]), "DFC"),
                      TDM      |-> sum(df, members(keys[g]), "TDM")]]
        try(row) ==
            LET date_id == lookup(dates_dim, "dates_dim", [Full_Date |-> row.dep_date_str])
                aircraft_id == lookup(aircrafts_dim, "aircrafts_dim",
                                      [Aircraft_Registration_Code |-> row.aircraftregistration])
            IN  [raised |-> date_id.raised \/ aircraft_id.raised,
                 row |-> [Date_ID |-> date_id.value, Aircraft_ID |-> aircraft_id.value,
                          FH |-> row.FH, Takeoffs |-> row.Takeoffs, DFC |-> row.DFC,
                          CFC |-> row.CFC, TDM |-> round(row.TDM, 60)]]
    IN  yielded([g \in 1..Len(keys) |-> try(agg_df[g])])

\* The groups of the monthly snapshot, sorted: (year, month_num, registration).
monthly_key(row) ==
    <<DateOf(row.scheduleddeparture).year, DateOf(row.scheduleddeparture).month,
      RegRank(row.aircraftregistration)>>
monthly_grouped(maintenance) ==
    {i \in 1..Len(maintenance) : /\ maintenance[i].scheduleddeparture # NaT
                                 /\ maintenance[i].scheduledarrival # NaT
                                 /\ maintenance[i].aircraftregistration # ""}
monthly_groups(maintenance) ==
    groupby({monthly_key(maintenance[i]) : i \in monthly_grouped(maintenance)})

\* Mutant of num_days_in_month: every month has 30 days.
num_days_in_month_30(row) == 30

\* _, num_days_in_month = calendar.monthrange(row['year'], row['month_num'])
num_days_in_month(row) == monthrange(row.year, row.month_num)

\* Mutant of clip: the upper bound is not applied.
clip_lower(x, lower, upper) == IF x < lower THEN lower ELSE x

\* Series.clip(lower, upper).
clip(x, lower, upper) == IF x < lower THEN lower ELSE IF x > upper THEN upper ELSE x

get_aircrafts_monthly_snapshot(maintenance, months_dim, aircrafts_dim) ==
    LET pct_of_day(row) ==
            clip(row.scheduledarrival - row.scheduleddeparture, 0, SecondsPerDay)
        df == [i \in 1..Len(maintenance) |->
                 IF i \in monthly_grouped(maintenance)
                 THEN [scheduled_pct |-> IF maintenance[i].programmed
                                         THEN pct_of_day(maintenance[i]) ELSE 0,
                       unscheduled_pct |-> IF ~maintenance[i].programmed
                                           THEN pct_of_day(maintenance[i]) ELSE 0]
                 ELSE [scheduled_pct |-> 0, unscheduled_pct |-> 0]]
        keys == monthly_groups(maintenance)
        members(k) == {i \in monthly_grouped(maintenance) : monthly_key(maintenance[i]) = k}
        agg_df == [g \in 1..Len(keys) |->
                     [year |-> keys[g][1], month_num |-> keys[g][2],
                      aircraftregistration |-> RegOrder[keys[g][3]],
                      ADOSS |-> sum(df, members(keys[g]), "scheduled_pct"),
                      ADOSU |-> sum(df, members(keys[g]), "unscheduled_pct")]]
        try(row) ==
            LET month_id == lookup(months_dim, "months_dim",
                                   [Month_Num |-> row.month_num, Year |-> row.year])
                aircraft_id == lookup(aircrafts_dim, "aircrafts_dim",
                                      [Aircraft_Registration_Code |-> row.aircraftregistration])
                ados == row.ADOSS + row.ADOSU
                adis == num_days_in_month(row) * SecondsPerDay - ados
            IN  [raised |-> month_id.raised \/ aircraft_id.raised,
                 row |-> [Month_ID |-> month_id.value, Aircraft_ID |-> aircraft_id.value,
                          ADIS |-> adis, ADOSS |-> row.ADOSS, ADOSU |-> row.ADOSU]]
    IN  yielded([g \in 1..Len(keys) |-> try(agg_df[g])])

\* The groups of the logbook aggregation, sorted: (year, month_num,
\* registration, reporteurclass, executionplace).
logbook_key(row) ==
    <<DateOf(row.reportingdate).year, DateOf(row.reportingdate).month,
      RegRank(row.aircraftregistration), ClassRank(row.reporteurclass),
      PlaceRank(row.executionplace)>>
logbook_grouped(logbooks) ==
    {i \in 1..Len(logbooks) : /\ logbooks[i].reportingdate # NaT
                              /\ logbooks[i].aircraftregistration # ""
                              /\ logbooks[i].reporteurclass # ""
                              /\ logbooks[i].executionplace # ""}
logbook_groups(logbooks) ==
    groupby({logbook_key(logbooks[i]) : i \in logbook_grouped(logbooks)})

get_logbooks(logbooks, months_dim, aircrafts_dim, reporters_dim) ==
    LET keys == logbook_groups(logbooks)
        members(k) == {i \in logbook_grouped(logbooks) : logbook_key(logbooks[i]) = k}
        agg_df == [g \in 1..Len(keys) |->
                     [year |-> keys[g][1], month_num |-> keys[g][2],
                      aircraftregistration |-> RegOrder[keys[g][3]],
                      reporteurclass |-> ClassOrder[keys[g][4]],
                      executionplace |-> PlaceOrder[keys[g][5]],
                      Log_Count |-> Cardinality(members(keys[g]))]]
        try(row) ==
            LET month_id == lookup(months_dim, "months_dim",
                                   [Month_Num |-> row.month_num, Year |-> row.year])
                aircraft_id == lookup(aircrafts_dim, "aircrafts_dim",
                                      [Aircraft_Registration_Code |-> row.aircraftregistration])
                reporter_id == lookup(reporters_dim, "reporters_dim",
                                      [Reporter_Class |-> row.reporteurclass,
                                       Report_Airport_Code |-> row.executionplace])
            IN  [raised |-> month_id.raised \/ aircraft_id.raised \/ reporter_id.raised,
                 row |-> [Month_ID |-> month_id.value, Aircraft_ID |-> aircraft_id.value,
                          Reporter_ID |-> reporter_id.value, Log_Count |-> row.Log_Count]]
    IN  yielded([g \in 1..Len(keys) |-> try(agg_df[g])])

(***************************************************************************)
(* Dimension rows (transform.py) and dimension loads (load.py).            *)
(***************************************************************************)
\* transform.get_aircrafts: the rows left in the CSV source, renamed.
get_aircrafts(aircraft_src) ==
    [i \in 1..(Len(aircraft_src.rows) - aircraft_src.pos) |->
        LET row == aircraft_src.rows[aircraft_src.pos + i]
        IN  [Aircraft_Registration_Code  |-> row.aircraft_reg_code,
             Manufacturer_Serial_Number  |-> row.manufacturer_serial_number,
             Aircraft_Model              |-> row.aircraft_model,
             Aircraft_Manufacturer_Class |-> row.aircraft_manufacturer]]

RECURSIVE ensure_all(_, _, _)
\* for row in iterator: dim.ensure(row)
ensure_all(dim, d, iterator) ==
    IF iterator = <<>> THEN dim
    ELSE ensure_all(ensure(dim, d, Head(iterator)).dim, d, Tail(iterator))

(***************************************************************************)
(* SpecAgg: the dimensions are loaded from drawn iterators, then one fact  *)
(* aggregator runs over a drawn frame against the loaded dimensions.       *)
(***************************************************************************)
Jan15 == [year |-> 2024, month |-> 1, day |-> 15]
Feb01 == [year |-> 2024, month |-> 2, day |-> 1]
AggDays == {Jan15, Feb01}

\* A flight of the day: on time, cancelled, or late by mins with a delay code.
OnTime(reg, d) ==
    Flight(0, reg, FALSE, At(d.year, d.month, d.day, 8, 0), At(d.year, d.month, d.day, 10, 0),
           At(d.year, d.month, d.day, 8, 0), At(d.year, d.month, d.day, 10, 0), "")
Cancelled(reg, d) ==
    Flight(0, reg, TRUE, At(d.year, d.month, d.day, 8, 0), At(d.year, d.month, d.day, 10, 0),
           NaT, NaT, "")
Late(reg, d, mins) ==
    Flight(0, reg, FALSE, At(d.year, d.month, d.day, 8, 0), At(d.year, d.month, d.day, 10, 0),
           At(d.year, d.month, d.day, 8, 0), At(d.year, d.month, d.day, 10, mins), "WX")

\* A flight of AB1 scheduled 08:00-10:00 on 2024-01-15, with the actual
\* departure and arrival given as seconds after 08:00 (NaT: none).
Shaped(cancelled, adep, aarr, code) ==
    Flight(0, "AB1", cancelled, At(2024, 1, 15, 8, 0), At(2024, 1, 15, 10, 0),
           IF adep = NaT THEN NaT ELSE At(2024, 1, 15, 8, 0) + adep,
           IF aarr = NaT THEN NaT ELSE At(2024, 1, 15, 8, 0) + aarr, code)

Reversed == Shaped(FALSE, 7200, 0, "")              \* arrives before it departs
NoDeparture == Shaped(FALSE, NaT, 7200, "")          \* flown, departure not recorded
Late15 == Shaped(FALSE, 0, 7200 + 900, "WX")         \* 15 minutes late, delay code
Late1501 == Shaped(FALSE, 0, 7200 + 901, "WX")       \* 15 minutes 1 second late, delay code
LateNoCode == Shaped(FALSE, 0, 7200 + 1800, "")      \* 30 minutes late, no delay code
CancelledFlown == Shaped(TRUE, 0, 5400, "")          \* cancelled, 1.5 hours recorded
CancelledLate == Shaped(TRUE, 0, 7200 + 1800, "WX")  \* cancelled, arrival 30 minutes late, delay code
NoDepartureLate == Shaped(FALSE, NaT, 7200 + 1800, "WX") \* no departure, 30 minutes late, delay code

SpecialFlights ==
    {Reversed, NoDeparture, Late15, Late1501, LateNoCode, CancelledFlown, CancelledLate,
     NoDepartureLate}

Fleet == <<"AB1", "AB2", "AB3", "AB4", "AB5", "AB6", "AB7", "AB8", "AB9">>

\* Nine records of nine registered aircraft and a tenth of an aircraft that
\* is in no master list.
TenFlights == [i \in 1..10 |-> OnTime(IF i = 10 THEN "XX9" ELSE Fleet[i], Jan15)]
TenWindows ==
    [i \in 1..10 |-> Maintenance(IF i = 10 THEN "XX9" ELSE Fleet[i],
                                 At(2024, 1, 15, 8, 0), At(2024, 1, 15, 10, 0), TRUE)]
TenReports ==
    [i \in 1..10 |-> Report(i, IF i = 10 THEN "XX9" ELSE Fleet[i],
                            At(2024, 1, 15, 8, 0), "PIREP", "BCN")]

AggFlightPool ==
    {OnTime("AB1", Jan15), OnTime("AB1", Feb01), OnTime("AB2", Jan15), OnTime("XX9", Jan15),
     Cancelled("AB1", Jan15), Late("AB1", Jan15, 30)}

AggWindowPool ==
    {Maintenance("AB1", At(2024, 1, 15, 8, 0), At(2024, 1, 15, 10, 0), TRUE),
     Maintenance("AB1", At(2024, 1, 15, 8, 0), At(2024, 1, 16, 14, 0), FALSE),
     Maintenance("AB1", At(2024, 2, 1, 8, 0), At(2024, 2, 1, 10, 0), FALSE),
     Maintenance("AB1", At(2024, 2, 1, 8, 0), At(2024, 2, 2, 14, 0), TRUE),
     Maintenance("AB2", At(2024, 1, 15, 8, 0), At(2024, 1, 15, 10, 0), TRUE),
     Maintenance("XX9", At(2024, 1, 15, 8, 0), At(2024, 1, 15, 10, 0), TRUE)}

AggReportPool ==
    {Report(0, "AB1", At(2024, 1, 15, 8, 0), "PIREP", "BCN"),
     Report(0, "AB1", At(2024, 1, 15, 8, 0), "MAREP", "BCN"),
     Report(0, "AB1", At(2024, 2, 1, 8, 0), "PIREP", "BCN"),
     Report(0, "XX9", At(2024, 1, 15, 8, 0), "PIREP", "BCN")}

\* Frames made of the special shapes: one flight, or two of one day and aircraft.
AggFlightScenarios ==
    {NumberFlights0(<<f>>) : f \in SpecialFlights}
    \cup {NumberFlights0(<<f, g>>) : f \in SpecialFlights \cup {OnTime("AB1", Jan15)},
                                     g \in SpecialFlights}

\* Windows of AB1 in months of 28, 29, 30 and 31 days, and a window that
\* ends before it starts, alone or next to a window of the same month.
MonthStarts ==
    {At(2023, 2, 10, 8, 0), At(2024, 2, 10, 8, 0), At(2024, 4, 10, 8, 0), At(2024, 1, 10, 8, 0)}
AggWindowScenarios ==
    {<<Maintenance("AB1", t, t + h * 3600, p)>> : t \in MonthStarts, h \in {-2, 30}, p \in BOOLEAN}
    \cup {<<Maintenance("AB1", t, t + 30 * 3600, p), Maintenance("AB1", t, t + 6 * 3600, q)>>
             : t \in MonthStarts, p \in BOOLEAN, q \in BOOLEAN}

\* Reports with a null key column next to a complete one.
AggReportScenarios ==
    {NumberReports(<<Report(0, "AB1", At(2024, 1, 15, 8, 0), "PIREP", "BCN"), r>>) :
        r \in {Report(0, "AB1", NaT, "PIREP", "BCN"), Report(0, "", At(2024, 1, 15, 8, 0), "PIREP", "BCN"),
               Report(0, "AB1", At(2024, 1, 15, 8, 0), "", "BCN"),
               Report(0, "AB1", At(2024, 1, 15, 8, 0), "PIREP", "")}}

AggFlightFrames ==
    UNION {{NumberFlights0(f) : f \in [1..n -> AggFlightPool]} : n \in 0..MaxAggRows}
    \cup {NumberFlights0(TenFlights)}
    \cup AggFlightScenarios
\* February 2023 of AB1, out of service without a gap: a window of the
\* first twelve hours of the month, then 28 windows of 24 hours, each from
\* noon to noon; no two of them overlap.
FullFebruary ==
    [i \in 1..29 |->
        IF i = 1
        THEN Maintenance("AB1", At(2023, 2, 1, 0, 0), At(2023, 2, 1, 12, 0), TRUE)
        ELSE Maintenance("AB1", At(2023, 2, i - 1, 12, 0),
                         At(2023, 2, i - 1, 12, 0) + SecondsPerDay, TRUE)]

AggWindowFrames ==
    UNION {[1..n -> AggWindowPool] : n \in 0..MaxAggRows} \cup {TenWindows, FullFebruary}
    \cup AggWindowScenarios
AggReportFrames ==
    UNION {{NumberReports(f) : f \in [1..n -> AggReportPool]} : n \in 0..MaxAggRows}
    \cup {TenReports}
    \cup AggReportScenarios

FleetFile == [i \in 1..Len(Fleet) |-> CsvAircraft(Fleet[i], "A320", "Airbus")]

AircraftIterators ==
    {get_aircrafts(get_aircraft_manufacturer_info(file)) :
        file \in {<<>>, <<CsvAircraft("AB1", "A320", "Airbus")>>,
                  <<CsvAircraft("AB2", "B737", "Boeing"), CsvAircraft("AB1", "A320", "Airbus")>>,
                  FleetFile}}
DateIterators ==
    {<<>>, <<DateRow(Jan15)>>, <<DateRow(Jan15), DateRow(Feb01)>>,
     <<DateRow(Feb01), DateRow(Jan15), DateRow(Feb01)>>}
MonthIterators ==
    {<<>>, <<MonthRow(1, 2024)>>, <<MonthRow(1, 2024), MonthRow(2, 2024)>>,
     <<MonthRow(2, 2024), MonthRow(1, 2024), MonthRow(2, 2024), MonthRow(2, 2023),
       MonthRow(4, 2024)>>}
ReporterIterators ==
    {<<>>, <<ReporterRow("PIREP", "BCN")>>,
     <<ReporterRow("MAREP", "BCN"), ReporterRow("PIREP", "BCN")>>}

InitAgg ==
    /\ dw = FreshDW
    /\ calls = [d \in DimNames |-> <<>>]
    /\ \/ /\ run = [NoRun EXCEPT !.job = "fod"]
          /\ heap \in {<<f>> : f \in AggFlightFrames}
          /\ flights_df = 1 /\ maintenance_df = 0 /\ reports_df = 0
       \/ /\ run = [NoRun EXCEPT !.job = "ams"]
          /\ heap \in {<<f>> : f \in AggWindowFrames}
          /\ flights_df = 0 /\ maintenance_df = 1 /\ reports_df = 0
       \/ /\ run = [NoRun EXCEPT !.job = "lb"]
          /\ heap \in {<<f>> : f \in AggReportFrames}
          /\ flights_df = 0 /\ maintenance_df = 0 /\ reports_df = 1
    /\ csv = NoCsv
    /\ passes = <<>>
    /\ facts = NoFacts
    /\ pc = "load_aircrafts"
    /\ db = EmptyDB

\* load.load_aircrafts(dw, aircraft_iterator)
load_aircrafts ==
    /\ pc = "load_aircrafts"
    /\ \E it \in AircraftIterators :
          dw' = [dw EXCEPT !["aircrafts_dim"] = ensure_all(@, "aircrafts_dim", it)]
    /\ pc' = IF run.job = "fod" THEN "load_dates" ELSE "load_months"
    /\ run' = [run EXCEPT !.loaded = @ \cup {"aircrafts_dim"}]
    /\ UNCHANGED <<calls, heap, flights_df, reports_df, maintenance_df, csv, passes, facts, db>>

\* load.load_dates(dw, date_iterator)
load_dates ==
    /\ pc = "load_dates"
    /\ \E it \in DateIterators :
          dw' = [dw EXCEPT !["dates_dim"] = ensure_all(@, "dates_dim", it)]
    /\ pc' = "facts"
    /\ run' = [run EXCEPT !.loaded = @ \cup {"dates_dim"}]
    /\ UNCHANGED <<calls, heap, flights_df, reports_df, maintenance_df, csv, passes, facts, db>>

\* load.load_months(dw, month_iterator)
load_months ==
    /\ pc = "load_months"
    /\ \E it \in MonthIterators :
          dw' = [dw EXCEPT !["months_dim"] = ensure_all(@, "months_dim", it)]
    /\ pc' = IF run.job = "lb" THEN "load_reporters" ELSE "facts"
    /\ run' = [run EXCEPT !.loaded = @ \cup {"months_dim"}]
    /\ UNCHANGED <<calls, heap, flights_df, reports_df, maintenance_df, csv, passes, facts, db>>

\* load.load_reporters(dw, reporter_iterator)
load_reporters ==
    /\ pc = "load_reporters"
    /\ \E it \in ReporterIterators :
          dw' = [dw EXCEPT !["reporters_dim"] = ensure_all(@, "reporters_dim", it)]
    /\ pc' = "facts"
    /\ run' = [run EXCEPT !.loaded = @ \cup {"reporters_dim"}]
    /\ UNCHANGED <<calls, heap, flights_df, reports_df, maintenance_df, csv, passes, facts, db>>

\* list(transform.get_flights_operations_daily(flights_df, dates_dim, aircrafts_dim))
Aggregate_daily ==
    /\ pc = "facts"
    /\ run.job = "fod"
    /\ LET out == get_flights_operations_daily(heap[flights_df], dw["dates_dim"],
                                               dw["aircrafts_dim"])
       IN  facts' = [kind |-> "fod", rows |-> out.rows, skipped |-> out.skipped]
    /\ pc' = "done"
    /\ UNCHANGED <<dw, calls, heap, flights_df, reports_df, maintenance_df, csv, passes, run, db>>

\* list(transform.get_aircrafts_monthly_snapshot(maintenance_df, months_dim, aircrafts_dim))
Aggregate_monthly ==
    /\ pc = "facts"
    /\ run.job = "ams"
    /\ LET out == get_aircrafts_monthly_snapshot(heap[maintenance_df], dw["months_dim"],
                                                 dw["aircrafts_dim"])
       IN  facts' = [kind |-> "ams", rows |-> out.rows, skipped |-> out.skipped]
    /\ pc' = "done"
    /\ UNCHANGED <<dw, calls, heap, flights_df, reports_df, maintenance_df, csv, passes, run, db>>

\* list(transform.get_logbooks(df, months_dim, aircrafts_dim, reporters_dim))
Aggregate_logbooks ==
    /\ pc = "facts"
    /\ run.job = "lb"
    /\ LET out == get_logbooks(heap[reports_df], dw["months_dim"], dw["aircrafts_dim"],
                               dw["reporters_dim"])
       IN  facts' = [kind |-> "lb", rows |-> out.rows, skipped |-> out.skipped]
    /\ pc' = "done"
    /\ UNCHANGED <<dw, calls, heap, flights_df, reports_df, maintenance_df, csv, passes, run, db>>

NextAgg ==
    \/ load_aircrafts
    \/ load_dates
    \/ load_months
    \/ load_reporters
    \/ Aggregate_daily
    \/ Aggregate_monthly
    \/ Aggregate_logbooks

SpecAgg == InitAgg /\ [][NextAgg]_vars

(***************************************************************************)
(* Claims on the aggregators' output (SpecAgg).                            *)
(***************************************************************************)
\* The surrogate-key columns of a fact row.
KeyColumns(kind) ==
    CASE kind = "fod" -> <<"Date_ID", "Aircraft_ID">>
      [] kind = "ams" -> <<"Month_ID", "Aircraft_ID">>
      [] kind = "lb"  -> <<"Month_ID", "Aircraft_ID", "Reporter_ID">>

KeyTuple(kind, row) == [c \in 1..Len(KeyColumns(kind)) |-> row[KeyColumns(kind)[c]]]

Ensured(d, natural) == natural \in DOMAIN dw[d].vals2key

\* The groups of the aggregated frame, as the natural keys they look up.
NaturalKeys ==
    CASE facts.kind = "fod" ->
            LET g == daily_groups(heap[flights_df])
            IN  [i \in 1..Len(g) |->
                    [dates_dim |-> <<strftime(g[i][1] * SecondsPerDay)>>,
                     aircrafts_dim |-> <<RegOrder[g[i][2]]>>]]
      [] facts.kind = "ams" ->
            LET g == monthly_groups(heap[maintenance_df])
            IN  [i \in 1..Len(g) |->
                    [months_dim |-> <<g[i][2], g[i][1]>>,
                     aircrafts_dim |-> <<RegOrder[g[i][3]]>>]]
      [] facts.kind = "lb" ->
            LET g == logbook_groups(heap[reports_df])
            IN  [i \in 1..Len(g) |->
                    [months_dim |-> <<g[i][2], g[i][1]>>,
                     aircrafts_dim |-> <<RegOrder[g[i][3]]>>,
                     reporters_dim |-> <<ClassOrder[g[i][4]], PlaceOrder[g[i][5]]>>]]

Resolvable == {i \in 1..Len(NaturalKeys) :
                  \A d \in DOMAIN NaturalKeys[i] : Ensured(d, NaturalKeys[i][d])}

\* C4: an aggregator yields one fact row per group whose keys all resolve,
\* skips every group with a key that does not resolve, and no yielded row
\* carries a null surrogate key; of ten groups with one unresolvable
\* aircraft, exactly nine rows come out.
C4_SkipAndContinue ==
    facts.kind # "none" =>
        /\ Len(facts.rows) = Cardinality(Resolvable)
        /\ facts.skipped = Len(NaturalKeys) - Cardinality(Resolvable)
        /\ \A i \in 1..Len(facts.rows) :
              \A c \in 1..Len(KeyColumns(facts.kind)) :
                  KeyTuple(facts.kind, facts.rows[i])[c] # NoneValue
        /\ (Len(NaturalKeys) = 10 /\ Cardinality(Resolvable) = 9) => Len(facts.rows) = 9

\* C5: no two rows yielded by one aggregator call carry the same tuple of
\* surrogate keys.
C5_UniqueKeyTuples ==
    facts.kind # "none" =>
        \A i, j \in 1..Len(facts.rows) :
            i # j => KeyTuple(facts.kind, facts.rows[i]) # KeyTuple(facts.kind, facts.rows[j])

(***************************************************************************)
(* Spec: one run of the coordinator, etl_control_flow.py.                  *)
(***************************************************************************)
\* str.lower() on the letters the drawn answers use.
lower(s) ==
    LET Lower == [c \in {"Y", "E", "S", "N", "O"} |->
                     CASE c = "Y" -> "y" [] c = "E" -> "e" [] c = "S" -> "s"
                       [] c = "N" -> "n" [] c = "O" -> "o"]
    IN  [i \in 1..Len(s) |-> IF s[i] \in DOMAIN Lower THEN Lower[s[i]] ELSE s[i]]

RECURSIVE strip(_)
\* str.strip(): leading and trailing blanks removed.
strip(s) ==
    IF s = <<>> THEN s
    ELSE IF Head(s) = " " THEN strip(Tail(s))
    ELSE IF s[Len(s)] = " " THEN strip(SubSeq(s, 1, Len(s) - 1))
    ELSE s

\* str.startswith(c)
startswith(s, c) == Len(s) > 0 /\ s[1] = c

\* What the operator may type at the prompt, as sequences of characters.
Responses ==
    {<<"y", "e", "s">>, <<"n", "o">>, <<" ", "Y", "E", "S", " ">>, <<>>,
     <<"o", "k", "a", "y">>}

\* extract.get_maintenance_personnel(): a CSVSource over the personnel file.
get_maintenance_personnel(file) == [rows |-> file, pos |-> 0]

PersonnelFile == <<[airport |-> "BCN"]>>

\* extract.get_flights_df(), get_maintenance_df(), get_postflightreports_df():
\* the frames read from the operational database.
get_flights_df ==
    {<<>>, ExampleABC,
     NumberFlights0(<<Flight(0, "AB1", FALSE, At(2024, 1, 15, 8, 0), At(2024, 1, 15, 10, 0),
                             At(2024, 1, 15, 10, 0), At(2024, 1, 15, 8, 0), "")>>),
     NumberFlights0(<<OnTime("AB1", Jan15), OnTime("XX9", Jan15)>>),
     NumberFlights0(<<OnTime("AB1", Jan15),
                      NullCancelled(OnTime("AB2", Jan15))>>)}
get_maintenance_df ==
    {<<>>, <<Maintenance("AB1", At(2024, 1, 15, 8, 0), At(2024, 1, 15, 10, 0), TRUE)>>}
get_postflightreports_df ==
    {<<>>,
     NumberReports(<<Report(0, "AB1", At(2024, 1, 15, 8, 0), "PIREP", "BCN"),
                     Report(0, "XX9", At(2024, 1, 15, 8, 0), "PIREP", "BCN")>>),
     NumberReports(<<Report(0, "XX9", At(2024, 1, 15, 8, 0), "MAREP", "BCN"),
                     Report(0, "XX9", At(2024, 2, 1, 8, 0), "PIREP", "BCN")>>)}

\* An aircraft file whose header names the registration column differently.
MisheadedFile ==
    <<[registration |-> "AB1", manufacturer_serial_number |-> "MSN-AB1",
       aircraft_model |-> "A320", aircraft_manufacturer |-> "Airbus"]>>

Init ==
    /\ dw = <<>>
    /\ calls = [d \in DimNames |-> <<>>]
    /\ heap = <<>>
    /\ flights_df = 0
    /\ reports_df = 0
    /\ maintenance_df = 0
    /\ csv \in {[file |-> a, present |-> b] : a \in AircraftFiles \cup {MisheadedFile},
                                              b \in BOOLEAN}
    /\ passes = <<>>
    /\ facts = NoFacts
    /\ pc = "create"
    /\ run = [NoRun EXCEPT !.job = "etl"]
    /\ db = EmptyDB

\* dw = DW(create=True).  duckdb.connect fails: sys.exit(1), no connection.
\* The connection opens and the DDL fails: sys.exit(2), the connection stays
\* open.  Otherwise the schema and the empty registries.  SystemExit is no
\* Exception: only the finally block runs, with dw still None.
CreateDW ==
    /\ pc = "create"
    /\ \E outcome \in {"connect_failed", "ddl_failed", "created"} :
          CASE outcome = "connect_failed" ->
                  /\ run' = [run EXCEPT !.exc = "SystemExit", !.at = "setup"]
                  /\ pc' = "finally"
                  /\ UNCHANGED dw
            [] outcome = "ddl_failed" ->
                  /\ run' = [run EXCEPT !.exc = "SystemExit", !.at = "setup", !.open = TRUE]
                  /\ pc' = "finally"
                  /\ UNCHANGED dw
            [] outcome = "created" ->
                  /\ dw' = FreshDW
                  /\ run' = [run EXCEPT !.open = TRUE]
                  /\ pc' = "prompt"
    /\ UNCHANGED <<calls, heap, flights_df, reports_df, maintenance_df, csv, passes, facts, db>>

\* cleaning = input(...).lower().strip().startswith('y')
Prompt ==
    /\ pc = "prompt"
    /\ \E user_response \in Responses :
          run' = [run EXCEPT !.cleaning = startswith(strip(lower(user_response)), "y")]
    /\ pc' = "extract_csv"
    /\ UNCHANGED <<dw, calls, heap, flights_df, reports_df, maintenance_df, csv, passes, facts, db>>

\* The three CSV sources are opened; open() raises when a file is missing.
ExtractCSV ==
    /\ pc = "extract_csv"
    /\ IF csv.present
       THEN /\ csv' = [file |-> csv.file, present |-> TRUE,
                       aircraft_manuf_info |-> get_aircraft_manufacturer_info(csv.file),
                       aircraft_manuf_info_cp |-> get_aircraft_manufacturer_info(csv.file),
                       maint_personnel_info |-> get_maintenance_personnel(PersonnelFile)]
            /\ pc' = "extract_pg"
            /\ UNCHANGED run
       ELSE /\ run' = [run EXCEPT !.exc = "FileNotFoundError", !.at = "extraction"]
            /\ pc' = "except"
            /\ UNCHANGED csv
    /\ UNCHANGED <<dw, calls, heap, flights_df, reports_df, maintenance_df, passes, facts, db>>

\* The three frames are read from PostgreSQL; the connection may fail.
ExtractPG ==
    /\ pc = "extract_pg"
    /\ \/ /\ \E f \in get_flights_df, m \in get_maintenance_df, r \in get_postflightreports_df :
                heap' = <<f, m, r>>
          /\ flights_df' = 1
          /\ maintenance_df' = 2
          /\ reports_df' = 3
          /\ pc' = IF run.cleaning THEN "br1" ELSE "phase3"
          /\ UNCHANGED run
       \/ /\ run' = [run EXCEPT !.exc = "ValueError", !.at = "extraction"]
          /\ pc' = "except"
          /\ UNCHANGED <<heap, flights_df, maintenance_df, reports_df>>
    /\ UNCHANGED <<dw, calls, csv, passes, facts, db>>

\* Mutant of reraise: the error is printed and the script goes on to phase 3.
reraise_swallowed(e) ==
    /\ run' = [run EXCEPT !.exc = e, !.at = "cleaning"]
    /\ pc' = "phase3"

\* except Exception as e: print(...); raise.  The error of a cleaning rule
\* leaves the cleaning block for the outer handler.
reraise(e) ==
    /\ run' = [run EXCEPT !.exc = e, !.at = "cleaning"]
    /\ pc' = "except"

\* flights_df = transform.check_and_fix_1st_BR(flights_df)
Clean_1st_BR ==
    /\ pc = "br1"
    /\ LET res == check_and_fix_1st_BR(heap, flights_df)
       IN  /\ heap' = res.heap
           /\ flights_df' = res.ref
           /\ passes' = Append(passes, Pass("BR1", heap, flights_df, res))
    /\ pc' = "br2"
    /\ UNCHANGED <<dw, calls, reports_df, maintenance_df, csv, facts, run, db>>

\* flights_df = transform.check_and_fix_2nd_BR(flights_df)
Clean_2nd_BR ==
    /\ pc = "br2"
    /\ IF raises_2nd_BR(heap, flights_df)
       THEN /\ reraise("TypeError")
            /\ UNCHANGED <<heap, flights_df, passes>>
       ELSE /\ LET res == check_and_fix_2nd_BR(heap, flights_df)
               IN  /\ heap' = res.heap
                   /\ flights_df' = res.ref
                   /\ passes' = Append(passes, Pass("BR2", heap, flights_df, res))
            /\ pc' = "br3"
            /\ UNCHANGED run
    /\ UNCHANGED <<dw, calls, reports_df, maintenance_df, csv, facts, db>>

\* postflightreports_df = transform.check_and_fix_3rd_BR(postflightreports_df,
\* aircraft_manuf_info_cp); no further rule follows and phase 3 starts.
Clean_3rd_BR ==
    /\ pc = "br3"
    /\ IF raises_3rd_BR(heap, reports_df, csv.aircraft_manuf_info_cp)
       THEN /\ reraise("KeyError")
            /\ UNCHANGED <<heap, reports_df, csv, passes>>
       ELSE /\ LET res == check_and_fix_3rd_BR(heap, reports_df, csv.aircraft_manuf_info_cp)
               IN  /\ heap' = res.heap
                   /\ reports_df' = res.ref
                   /\ csv' = [csv EXCEPT !.aircraft_manuf_info_cp = res.aircrafts]
                   /\ passes' = Append(passes, Pass("BR3", heap, reports_df, res))
            /\ pc' = "phase3"
            /\ UNCHANGED run
    /\ UNCHANGED <<dw, calls, flights_df, maintenance_df, facts, db>>

\* transform.get_aircrafts(aircraft_manuf_info, postflightreports_df): the
\* function takes one argument, the call raises TypeError, and nothing of
\* phases 3 and 4 runs.
LoadDimensions ==
    /\ pc = "phase3"
    /\ run' = [run EXCEPT !.exc = "TypeError", !.at = "dimensions"]
    /\ pc' = "except"
    /\ UNCHANGED <<dw, calls, heap, flights_df, reports_df, maintenance_df, csv, passes, facts, db>>

\* except Exception as e: the error is printed.
Except ==
    /\ pc = "except"
    /\ pc' = "finally"
    /\ UNCHANGED <<dw, calls, heap, flights_df, reports_df, maintenance_df, csv, passes, facts, run, db>>

\* finally: if dw: dw.close()
Finally ==
    /\ pc = "finally"
    /\ run' = IF dw # <<>> THEN [run EXCEPT !.open = FALSE, !.closed = TRUE] ELSE run
    /\ pc' = "done"
    /\ UNCHANGED <<dw, calls, heap, flights_df, reports_df, maintenance_df, csv, passes, facts, db>>

Next ==
    \/ CreateDW
    \/ Prompt
    \/ ExtractCSV
    \/ ExtractPG
    \/ Clean_1st_BR
    \/ Clean_2nd_BR
    \/ Clean_3rd_BR
    \/ LoadDimensions
    \/ Except
    \/ Finally

Spec == Init /\ [][Next]_vars

\* The passes made by the time the cleaning block is left.
Cleaned == pc \in {"phase3", "except", "finally", "done"} /\ Len(passes) > 0

\* C10: with cleaning enabled, a Rule 4 pass over the technical logbook
\* entries follows the Rule 3 pass, so that only entries of reports that
\* Rule 3 kept go on to the logbook aggregation.
C10_Rule4AfterRule3 ==
    (run.cleaning /\ Cleaned) =>
        \E p, q \in 1..Len(passes) :
            /\ p < q
            /\ passes[p].rule = "BR3"
            /\ passes[q].rule = "BR4"

\* C11: with cleaning enabled, Rule 1 is applied before Rule 2, Rule 2 is
\* given what Rule 1 returned, and the Dates dimension and the daily flight
\* aggregation are computed from what Rule 2 returned, not from the raw
\* flights.
C11_RulesFeedFlightFacts ==
    (run.cleaning /\ pc = "done" /\ Len(passes) >= 2) =>
        /\ passes[1].rule = "BR1"
        /\ passes[2].rule = "BR2"
        /\ passes[2].arg = passes[1].ret
        /\ flights_df = passes[2].ret
        /\ "dates_dim" \in run.loaded
        /\ facts.kind = "fod"
        /\ facts.rows = get_flights_operations_daily(passes[2].output, dw["dates_dim"],
                                                     dw["aircrafts_dim"]).rows

(***************************************************************************)
(* Claims on the measures of the daily flight aggregation (SpecAgg).       *)
(***************************************************************************)
\* The dimensions behind the key columns of a fact row, in column order.
KeyDims(kind) ==
    CASE kind = "fod" -> <<"dates_dim", "aircrafts_dim">>
      [] kind = "ams" -> <<"months_dim", "aircrafts_dim">>
      [] kind = "lb"  -> <<"months_dim", "aircrafts_dim", "reporters_dim">>

\* The surrogate keys of a group whose natural keys all resolve, and the
\* rows of the output that carry them.
SurrogateKeys(g) ==
    [c \in 1..Len(KeyDims(facts.kind)) |->
        dw[KeyDims(facts.kind)[c]].vals2key[NaturalKeys[g][KeyDims(facts.kind)[c]]]]
RowsOf(g) ==
    {k \in 1..Len(facts.rows) : KeyTuple(facts.kind, facts.rows[k]) = SurrogateKeys(g)}

RECURSIVE Total(_, _)
\* The total of f over the indices in S.
Total(f, S) ==
    IF S = {} THEN 0
    ELSE LET i == CHOOSE i \in S : \A j \in S : i <= j
         IN  f[i] + Total(f, S \ {i})

\* The flights of the aggregated frame that fall into daily group g.
DailyMembers(g) ==
    {i \in daily_grouped(heap[flights_df]) :
        daily_key(heap[flights_df][i]) = daily_groups(heap[flights_df])[g]}

\* Flight hours of one flight as specified (in seconds): nothing for a
\* cancelled flight or one without departure, else the time flown, at least 0.
FlightSeconds(f) ==
    IF f.cancelled \/ f.actualdeparture = NaT \/ f.actualarrival = NaT THEN 0
    ELSE IF f.actualarrival < f.actualdeparture THEN 0
    ELSE f.actualarrival - f.actualdeparture

\* C12: the flight hours of a daily row are the sum over its flights of 0
\* for a cancelled flight or one without actual departure and of arrival
\* minus departure floored at 0 otherwise; no row has negative flight hours.
C12_FlightHoursFloored ==
    facts.kind = "fod" =>
        /\ \A k \in 1..Len(facts.rows) : facts.rows[k].FH >= 0
        /\ \A g \in Resolvable : \A k \in RowsOf(g) :
              facts.rows[k].FH =
                  Total([i \in 1..Len(heap[flights_df]) |->
                            FlightSeconds(heap[flights_df][i])], DailyMembers(g))

\* C13: the takeoffs of a daily row count its flights whose cancelled flag
\* is false and its cancellations count those whose flag is true, whatever
\* the actual departure.
C13_CountsByCancelledFlag ==
    facts.kind = "fod" =>
        \A g \in Resolvable : \A k \in RowsOf(g) :
            /\ facts.rows[k].Takeoffs =
                  Cardinality({i \in DailyMembers(g) : ~heap[flights_df][i].cancelled})
            /\ facts.rows[k].CFC =
                  Cardinality({i \in DailyMembers(g) : heap[flights_df][i].cancelled})

\* Whether a flight is delayed as specified, and its arrival delay in seconds.
ArrivalDelay(f) == f.actualarrival - f.scheduledarrival
Delayed(f) ==
    /\ f.delaycode # ""
    /\ f.actualarrival # NaT
    /\ f.scheduledarrival # NaT
    /\ ArrivalDelay(f) > 15 * 60

\* C14: the delayed-flight count of a daily row counts its flights that have
\* a delay code and arrive more than 15 minutes after schedule, and its
\* delay minutes are the arrival delays of exactly those flights (summed,
\* rounded to whole minutes); a delay of exactly 15 minutes or a flight
\* without delay code adds nothing to either.
C14_DelayThreshold ==
    facts.kind = "fod" =>
        \A g \in Resolvable : \A k \in RowsOf(g) :
            /\ facts.rows[k].DFC =
                  Cardinality({i \in DailyMembers(g) : Delayed(heap[flights_df][i])})
            /\ facts.rows[k].TDM =
                  round(Total([i \in 1..Len(heap[flights_df]) |->
                                  IF Delayed(heap[flights_df][i])
                                  THEN ArrivalDelay(heap[flights_df][i]) ELSE 0],
                              DailyMembers(g)), 60)

\* A flight 15 minutes late and one a second later, both with a delay code,
\* were aggregated into one row: one delayed flight, 15 minutes.
C14_Witness ==
    /\ facts.kind = "fod"
    /\ heap[flights_df] = NumberFlights0(<<Late15, Late1501>>)
    /\ Resolvable = {1}
    /\ Len(facts.rows) = 1
    /\ facts.rows[1].DFC = 1
    /\ facts.rows[1].TDM = 15

\* The two flights of AB1 on 2024-01-15 of the example: 2.0 hours on time,
\* and a cancelled one.
ExampleDaily == NumberFlights0(<<OnTime("AB1", Jan15), CancelledFlown>>)

\* C15: for every (scheduled day, aircraft) pair of the input that resolves
\* in both dimensions, exactly one row carries the pair's surrogate keys,
\* and its FH, Takeoffs, DFC, CFC and TDM are the sums of the per-flight
\* measures over the flights of the pair; the example gives one row with
\* FH = 2.0 h, Takeoffs = 1, CFC = 1, DFC = 0, TDM = 0.
C15_DailyRowPerPair ==
    facts.kind = "fod" =>
        LET F == heap[flights_df]
            pairs == {<<DayOf(F[i].scheduleddeparture), F[i].aircraftregistration>> :
                         i \in {j \in 1..Len(F) : /\ F[j].scheduleddeparture # NaT
                                                  /\ F[j].aircraftregistration # ""}}
            of(pr) == {i \in 1..Len(F) : /\ F[i].scheduleddeparture # NaT
                                         /\ DayOf(F[i].scheduleddeparture) = pr[1]
                                         /\ F[i].aircraftregistration = pr[2]}
            date(pr) == <<build_dateCode(DateOf(pr[1] * SecondsPerDay))>>
            ok(pr) == Ensured("dates_dim", date(pr)) /\ Ensured("aircrafts_dim", <<pr[2]>>)
            rows(pr) == {k \in 1..Len(facts.rows) :
                            /\ facts.rows[k].Date_ID = dw["dates_dim"].vals2key[date(pr)]
                            /\ facts.rows[k].Aircraft_ID = dw["aircrafts_dim"].vals2key[<<pr[2]>>]}
            total(pr, col) == Total([i \in 1..Len(F) |-> flight_measures(F[i])[col]], of(pr))
        IN  /\ \A pr \in pairs : ok(pr) =>
                  /\ Cardinality(rows(pr)) = 1
                  /\ \A k \in rows(pr) :
                        /\ facts.rows[k].FH = total(pr, "FH")
                        /\ facts.rows[k].Takeoffs = total(pr, "Takeoffs")
                        /\ facts.rows[k].DFC = total(pr, "DFC")
                        /\ facts.rows[k].CFC = total(pr, "CFC")
                        /\ facts.rows[k].TDM = round(total(pr, "TDM"), 60)
            /\ (F = ExampleDaily /\ ok(<<DayOf(At(2024, 1, 15, 0, 0)), "AB1">>)) =>
                  /\ Len(facts.rows) = 1
                  /\ facts.rows[1].FH = 2 * 3600
                  /\ facts.rows[1].Takeoffs = 1
                  /\ facts.rows[1].CFC = 1
                  /\ facts.rows[1].DFC = 0
                  /\ facts.rows[1].TDM = 0

\* The example was aggregated with both keys resolved.
C15_Witness ==
    /\ facts.kind = "fod"
    /\ heap[flights_df] = ExampleDaily
    /\ Len(facts.rows) = 1
    /\ facts.rows[1].Date_ID # NoneValue
    /\ facts.rows[1].Aircraft_ID # NoneValue
    /\ facts.rows[1].FH = 2 * 3600

(***************************************************************************)
(* Claims on the measures of the monthly snapshot (SpecAgg).               *)
(***************************************************************************)
\* The windows of the aggregated frame that fall into monthly group g.
MonthlyMembers(g) ==
    {i \in monthly_grouped(heap[maintenance_df]) :
        monthly_key(heap[maintenance_df][i]) = monthly_groups(heap[maintenance_df])[g]}

\* The out-of-service share of one window, in seconds of one day.
DayShare(w) ==
    LET d == w.scheduledarrival - w.scheduleddeparture
    IN  IF d > SecondsPerDay THEN SecondsPerDay ELSE IF d < 0 THEN 0 ELSE d

\* C16: a window adds its duration as a fraction of a day, at most 1 and at
\* least 0, to ADOSS when it is programmed and to ADOSU when it is not,
\* never to both: 30 hours add exactly one day, a window ending before it
\* starts adds nothing.
C16_OutOfServiceClamp ==
    facts.kind = "ams" =>
        \A g \in Resolvable : \A k \in RowsOf(g) :
            /\ facts.rows[k].ADOSS =
                  Total([i \in 1..Len(heap[maintenance_df]) |->
                            IF heap[maintenance_df][i].programmed
                            THEN DayShare(heap[maintenance_df][i]) ELSE 0], MonthlyMembers(g))
            /\ facts.rows[k].ADOSU =
                  Total([i \in 1..Len(heap[maintenance_df]) |->
                            IF heap[maintenance_df][i].programmed
                            THEN 0 ELSE DayShare(heap[maintenance_df][i])], MonthlyMembers(g))

\* A programmed window of 30 hours was aggregated: one scheduled day out of
\* service, no unscheduled one.
C16_Witness ==
    /\ facts.kind = "ams"
    /\ heap[maintenance_df] =
          <<Maintenance("AB1", At(2024, 1, 10, 8, 0), At(2024, 1, 10, 8, 0) + 30 * 3600, TRUE)>>
    /\ Resolvable = {1}
    /\ Len(facts.rows) = 1
    /\ facts.rows[1].ADOSS = SecondsPerDay
    /\ facts.rows[1].ADOSU = 0

\* The days of the months the frames fall into.
CalendarDays(year, month) ==
    CASE month = 2 /\ year = 2023 -> 28
      [] month = 2 /\ year = 2024 -> 29
      [] month = 4 -> 30
      [] month = 1 -> 31

\* C17: every monthly row has ADIS = D - (ADOSS + ADOSU), D being the days
\* of the month and year of the scheduled departure of its windows (28, 29,
\* 30 or 31).
C17_InServiceDays ==
    facts.kind = "ams" =>
        \A g \in Resolvable : \A k \in RowsOf(g) :
            facts.rows[k].ADIS =
                CalendarDays(NaturalKeys[g]["months_dim"][2], NaturalKeys[g]["months_dim"][1])
                    * SecondsPerDay
                - (facts.rows[k].ADOSS + facts.rows[k].ADOSU)

\* A window of February 2023 was aggregated: 28 days less one day out of service.
C17_Witness ==
    /\ facts.kind = "ams"
    /\ Len(heap[maintenance_df]) = 1
    /\ heap[maintenance_df][1].scheduleddeparture = At(2023, 2, 10, 8, 0)
    /\ Resolvable = {1}
    /\ Len(facts.rows) = 1
    /\ facts.rows[1].ADOSS + facts.rows[1].ADOSU = SecondsPerDay
    /\ facts.rows[1].ADIS = 27 * SecondsPerDay

(***************************************************************************)
(* Claims on the logbook aggregation (SpecAgg).                            *)
(***************************************************************************)
\* The entries of the aggregated frame that fall into logbook group g.
LogbookMembers(g) ==
    {i \in logbook_grouped(heap[reports_df]) :
        logbook_key(heap[reports_df][i]) = logbook_groups(heap[reports_df])[g]}

\* Whether an entry has all four key columns and its three keys resolve.
Countable(e) ==
    /\ e.reportingdate # NaT
    /\ e.aircraftregistration # ""
    /\ e.reporteurclass # ""
    /\ e.executionplace # ""
    /\ Ensured("months_dim", <<DateOf(e.reportingdate).month, DateOf(e.reportingdate).year>>)
    /\ Ensured("aircrafts_dim", <<e.aircraftregistration>>)
    /\ Ensured("reporters_dim", <<e.reporteurclass, e.executionplace>>)

\* C18: get_logbooks yields one row per (month, aircraft, reporter) key with
\* the number of entries of that key as Log_Count; every Log_Count is at
\* least 1 and the Log_Counts add up to the number of entries that have no
\* null key column and whose three keys resolve.
C18_LogCounts ==
    facts.kind = "lb" =>
        /\ \A k \in 1..Len(facts.rows) : facts.rows[k].Log_Count >= 1
        /\ \A g \in Resolvable :
              /\ Cardinality(RowsOf(g)) = 1
              /\ \A k \in RowsOf(g) :
                    facts.rows[k].Log_Count = Cardinality(LogbookMembers(g))
        /\ Total([k \in 1..Len(facts.rows) |-> facts.rows[k].Log_Count], 1..Len(facts.rows))
              = Cardinality({i \in 1..Len(heap[reports_df]) : Countable(heap[reports_df][i])})

(***************************************************************************)
(* Claims on the coordinator's phases (Spec).                              *)
(***************************************************************************)
\* C19: a run that gets its frames loads the four dimensions (reporters,
\* aircrafts, dates, months) and only then lets a fact aggregation look
\* keys up: no fact output exists while a dimension is still unloaded.
C19_DimensionsBeforeFacts ==
    /\ facts.kind # "none" => run.loaded = DimNames
    /\ (pc = "done" /\ heap # <<>>) => run.loaded = DimNames

\* C20: whatever step fails, and when none does, no run ends with a
\* connection that was opened and not closed.
C20_ConnectionClosed ==
    pc = "done" => ~run.open

\* The order of the fact loads of phase 4.
FactLoadOrder == <<"Flight_operations_Daily", "Aircraft_Monthly_Summary", "Logbooks">>

\* Where a step reports a failure that comes from outside the script: the
\* warehouse file, the sources, the data handed to a rule, a fact insert.
ExternalFailureAt == {"setup", "extraction", "cleaning", "load"}

\* C21: a run ends completed or aborted, and a run in which no extraction,
\* cleaning or load step reports an external failure has loaded the
\* dimensions and then the three fact tables when it reaches the final
\* cleanup.
C21_CompletesUnlessExternalFailure ==
    pc = "done" =>
        \/ run.at \in ExternalFailureAt
        \/ /\ run.exc = "none"
           /\ {"aircrafts_dim", "dates_dim", "months_dim"} \subseteq run.loaded
           /\ run.loads = FactLoadOrder

\* C23: a run aborts only during connection setup or extraction, nothing is
\* persisted before an abort, and at the end of a run either all three fact
\* tables have been loaded or none has.
C23_NoPartialLoad ==
    pc = "done" =>
        /\ run.exc # "none" =>
              /\ run.at \in {"setup", "extraction"}
              /\ run.loaded = {}
              /\ run.loads = <<>>
        /\ run.loads \in {<<>>, FactLoadOrder}

\* C25: once a cleaning rule has raised, the script is on its way out through
\* the handlers: no dimension and no fact table is loaded, and at the end of
\* the run the connection has been closed.
C25_CleaningErrorStopsRun ==
    run.at = "cleaning" =>
        /\ pc \in {"except", "finally", "done"}
        /\ run.loaded = {}
        /\ run.loads = <<>>
        /\ db = EmptyDB
        /\ pc = "done" => (run.closed /\ ~run.open)

\* A run that ended after Rule 3 raised on the aircraft file, its connection
\* closed.
C25_Witness ==
    /\ pc = "done"
    /\ run.at = "cleaning"
    /\ run.exc = "KeyError"
    /\ Len(passes) = 2
    /\ run.closed

(***************************************************************************)
(* load.py: the bulk loader of the fact tables, on the DuckDB connection.  *)
(* The connection is in autocommit mode (nothing in the program begins a   *)
(* transaction): a statement takes effect as a whole or not at all, and    *)
(* commit() has nothing left to do.                                        *)
(***************************************************************************)
MaxLoads == 2       \* SpecLoad: calls of the bulk loader in one behaviour

\* keyrefs of the FactTable objects: the key columns of a fact table.
keyrefs(t) ==
    CASE t = "Flight_operations_Daily"  -> <<"Date_ID", "Aircraft_ID">>
      [] t = "Aircraft_Monthly_Summary" -> <<"Month_ID", "Aircraft_ID">>
      [] t = "Logbooks"                 -> <<"Month_ID", "Aircraft_ID", "Reporter_ID">>

\* FOREIGN KEY ... REFERENCES: the dimension behind each key column.
references(t) ==
    CASE t = "Flight_operations_Daily"  -> <<"dates_dim", "aircrafts_dim">>
      [] t = "Aircraft_Monthly_Summary" -> <<"months_dim", "aircrafts_dim">>
      [] t = "Logbooks"                 -> <<"months_dim", "aircrafts_dim", "reporters_dim">>

\* The CHECK constraints of a fact table's measures.
check(t, row) ==
    CASE t = "Flight_operations_Daily" ->
            row.Takeoffs >= 0 /\ row.DFC >= 0 /\ row.CFC >= 0 /\ row.TDM >= 0
      [] t = "Aircraft_Monthly_Summary" ->
            row.ADIS >= 0 /\ row.ADOSS >= 0 /\ row.ADOSU >= 0
      [] t = "Logbooks" -> row.Log_Count > 0

\* NOT NULL on the key columns (the measures of a yielded row are numbers).
not_null(t, row) == \A c \in 1..Len(keyrefs(t)) : row[keyrefs(t)[c]] # NoneValue

primary_key(t, row) == [c \in 1..Len(keyrefs(t)) |-> row[keyrefs(t)[c]]]

\* Whether the rows may stand in table t together: column constraints,
\* PRIMARY KEY, and FOREIGN KEY against the rows of the dimensions.
constraints_hold(t, rows, dims) ==
    /\ \A i \in 1..Len(rows) :
          /\ not_null(t, rows[i])
          /\ check(t, rows[i])
          /\ \A c \in 1..Len(keyrefs(t)) :
                rows[i][keyrefs(t)[c]] \in 1..dims[references(t)[c]].maxid
    /\ \A i, j \in 1..Len(rows) :
          i # j => primary_key(t, rows[i]) # primary_key(t, rows[j])

virtual_table_name == "df_fact_virtual"

\* conn.register(virtual_table_name, df_to_insert)
register(d, name) == [d EXCEPT !.views = @ \cup {name}]

\* conn.unregister(virtual_table_name): the view is dropped if it is there.
unregister(d, name) == [d EXCEPT !.views = @ \ {name}]

\* conn.execute("INSERT INTO t SELECT * FROM view"); conn.commit().  The
\* statement fails on a constraint or on an error of the engine and then
\* leaves the table as it was.
execute_insert(d, t, df, dims, engine_error) ==
    IF engine_error THEN [db |-> d, error |-> "duckdb.Error"]
    ELSE IF ~constraints_hold(t, d.tables[t] \o df, dims)
    THEN [db |-> d, error |-> "duckdb.ConstraintException"]
    ELSE [db |-> [d EXCEPT !.tables[t] = @ \o df], error |-> "none"]

\* Mutant of load_fact_table_bulk: the handler prints the error and does not
\* raise it again.
load_fact_table_bulk_quiet(d, t, iterator, dims, outcome) ==
    LET df_to_insert == iterator
    IN  IF df_to_insert = <<>>
        THEN [db |-> d, error |-> "none", raised |-> "none"]
        ELSE IF outcome = "register_failed"
        THEN [db |-> unregister(d, virtual_table_name), error |-> "duckdb.Error",
              raised |-> "none"]
        ELSE LET ins == execute_insert(register(d, virtual_table_name), t, df_to_insert,
                                       dims, outcome = "insert_failed")
             IN  [db |-> unregister(ins.db, virtual_table_name), error |-> ins.error,
                  raised |-> "none"]

\* load._load_fact_table_bulk(dw, table_name, iterator, table_desc): what the
\* connection holds afterwards, the error that occurred inside and the
\* exception the caller gets.
load_fact_table_bulk(d, t, iterator, dims, outcome) ==
    LET df_to_insert == iterator
    IN  IF df_to_insert = <<>>
        THEN [db |-> d, error |-> "none", raised |-> "none"]
        ELSE IF outcome = "register_failed"
        THEN [db |-> unregister(d, virtual_table_name), error |-> "duckdb.Error",
              raised |-> "duckdb.Error"]
        ELSE LET ins == execute_insert(register(d, virtual_table_name), t, df_to_insert,
                                       dims, outcome = "insert_failed")
             IN  [db |-> unregister(ins.db, virtual_table_name), error |-> ins.error,
                  raised |-> ins.error]

(***************************************************************************)
(* SpecLoad: the bulk loader called on drawn batches, against dimensions   *)
(* that hold two rows each.                                                *)
(***************************************************************************)
LoadedDW ==
    [d \in DimNames |->
        ensure_all(EmptyDimension, d,
            CASE d = "aircrafts_dim" ->
                    <<AircraftRow("AB1", "A320", "Airbus"), AircraftRow("AB2", "B737", "Boeing")>>
              [] d = "dates_dim" -> <<DateRow(Jan15), DateRow(Feb01)>>
              [] d = "months_dim" -> <<MonthRow(1, 2024), MonthRow(2, 2024)>>
              [] d = "reporters_dim" ->
                    <<ReporterRow("MAREP", "BCN"), ReporterRow("PIREP", "BCN")>>)]

DailyFact(date_id, aircraft_id) ==
    [Date_ID |-> date_id, Aircraft_ID |-> aircraft_id, FH |-> 7200, Takeoffs |-> 1,
     DFC |-> 0, CFC |-> 0, TDM |-> 0]

MonthlyFact(month_id, aircraft_id, adis) ==
    [Month_ID |-> month_id, Aircraft_ID |-> aircraft_id, ADIS |-> adis,
     ADOSS |-> 31 * SecondsPerDay - adis, ADOSU |-> 0]

LogbookFact(month_id, aircraft_id, reporter_id) ==
    [Month_ID |-> month_id, Aircraft_ID |-> aircraft_id, Reporter_ID |-> reporter_id,
     Log_Count |-> 1]

\* The batches an iterator may yield for table t: none, sound rows, a sound
\* row followed by one that breaks NOT NULL, FOREIGN KEY, CHECK or PRIMARY KEY.
Batches(t) ==
    CASE t = "Flight_operations_Daily" ->
            {<<>>, <<DailyFact(1, 1)>>, <<DailyFact(1, 2), DailyFact(2, 1)>>,
             <<DailyFact(2, 2), DailyFact(NoneValue, 1)>>,
             <<DailyFact(2, 2), DailyFact(1, 9)>>}
      [] t = "Aircraft_Monthly_Summary" ->
            {<<>>, <<MonthlyFact(1, 1, 30 * SecondsPerDay)>>,
             <<MonthlyFact(2, 1, 0), MonthlyFact(2, 2, -SecondsPerDay)>>}
      [] t = "Logbooks" ->
            {<<>>, <<LogbookFact(1, 1, 1), LogbookFact(1, 1, 2)>>,
             <<LogbookFact(2, 1, 1), LogbookFact(2, 1, 1)>>}

InitLoad ==
    /\ dw = LoadedDW
    /\ calls = [d \in DimNames |-> <<>>]
    /\ heap = <<>>
    /\ flights_df = 0
    /\ reports_df = 0
    /\ maintenance_df = 0
    /\ csv = NoCsv
    /\ passes = <<>>
    /\ facts = NoFacts
    /\ pc = "load"
    /\ run = [NoRun EXCEPT !.job = "load", !.open = TRUE, !.loaded = DimNames]
    /\ db = EmptyDB

\* One call of the loader, as load_flights_operations_daily,
\* load_aircrafts_monthly_snapshot and load_logbooks make it.
LoadFact ==
    /\ pc = "load"
    /\ Len(run.loads) < MaxLoads
    /\ \E t \in FactTables : \E batch \in Batches(t) :
       \E outcome \in {"ok", "register_failed", "insert_failed"} :
          LET res == load_fact_table_bulk(db, t, batch, dw, outcome)
          IN  /\ db' = res.db
              /\ facts' = [kind |-> t, rows |-> batch, skipped |-> 0]
              /\ run' = [run EXCEPT !.loads = Append(@, t), !.exc = res.raised]
              /\ passes' = Append(passes,
                    [table |-> t, batch |-> batch, error |-> res.error,
                     raised |-> res.raised, before |-> db.tables[t],
                     after |-> res.db.tables[t], views |-> res.db.views])
    /\ UNCHANGED <<dw, calls, heap, flights_df, reports_df, maintenance_df, csv, pc>>

NextLoad == LoadFact

SpecLoad == InitLoad /\ [][NextLoad]_vars

\* C22: a call of the bulk loader in which the registration or the insert
\* fails leaves the fact table as it was and hands the caller that error; a
\* call in which nothing fails has appended every row of the batch; either
\* way the virtual table is not registered afterwards, and no other fact
\* table is touched.
C22_BulkLoadAllOrNothing ==
    /\ db.views = {}
    /\ \A p \in 1..Len(passes) :
          /\ passes[p].views = {}
          /\ passes[p].error # "none" =>
                /\ passes[p].after = passes[p].before
                /\ passes[p].raised = passes[p].error
          /\ passes[p].error = "none" =>
                /\ passes[p].after = passes[p].before \o passes[p].batch
                /\ passes[p].raised = "none"
    /\ \A t \in FactTables : constraints_hold(t, db.tables[t], dw)

\* A second call whose batch has a sound row and a row that breaks a
\* constraint failed with the first call's rows still the table's only rows.
C22_Witness ==
    /\ Len(passes) = 2
    /\ passes[1].error = "none" /\ Len(passes[1].batch) = 2
    /\ passes[2].table = passes[1].table
    /\ passes[2].error = "duckdb.ConstraintException"
    /\ Len(passes[2].batch) = 2
    /\ db.tables[passes[2].table] = passes[1].batch

(***************************************************************************)
(* Further claims on the rules (SpecRules).                                *)
(***************************************************************************)
\* C24: check_and_fix_3rd_BR returns exactly the invalid reports, those whose
\* aircraft registration is not in the aircraft list.
C24_Rule3ReturnsInvalid ==
    \A p \in PassesOf("BR3") :
        LET listed == {csv.file[i].aircraft_reg_code : i \in 1..Len(csv.file)}
            Unlisted(row) == row.aircraftregistration \notin listed
        IN  passes[p].output = SelectSeq(passes[p].input, Unlisted)

\* The ids of the flights of a frame.
Ids(frame) == {frame[i].id : i \in 1..Len(frame)}

\* C27: Rule 2 returns every cancelled flight of its input, and the flights
\* it excludes are the ones it excludes from the input without its
\* cancelled flights.
C27_Rule2IgnoresCancelled ==
    \A p \in PassesOf("BR2") :
        LET in == passes[p].input
            out == passes[p].output
            Live(row) == ~row.cancelled
            live == SelectSeq(in, Live)
            live_out == check_and_fix_2nd_BR(<<live>>, 1)
        IN  /\ \A i \in 1..Len(in) :
                  in[i].cancelled => \E k \in 1..Len(out) : out[k] = in[i]
            /\ live # in =>
                  Ids(in) \ Ids(out) = Ids(live) \ Ids(live_out.heap[live_out.ref])

\* Rule 2 has run on the example with the cancelled flight K, whose times
\* overlap B and C: A alone is excluded.
C27_Witness ==
    /\ Len(passes) = 1
    /\ passes[1].rule = "BR2"
    /\ passes[1].input = ExampleABCK
    /\ passes[1].output = <<ExampleABCK[2], ExampleABCK[3], ExampleABCK[4]>>

\* No live flight of the frame has a null actual timestamp.
Timed(frame) ==
    \A i \in 1..Len(frame) :
        ~frame[i].cancelled =>
            frame[i].actualdeparture # NaT /\ frame[i].actualarrival # NaT

\* C28: after Rule 2 has run on flights with actual timestamps, of any two
\* live flights of one aircraft that it returned the one that departs
\* earlier arrives no later than the other departs, adjacent in departure
\* order or not, and Rule 2 applied to what it returned returns all of it.
C28_Rule2LeavesNoOverlap ==
    \A p \in PassesOf("BR2") :
        LET out == passes[p].output
        IN  Timed(passes[p].input) =>
              /\ \A i, j \in 1..Len(out) :
                    (/\ ~out[i].cancelled /\ ~out[j].cancelled
                     /\ out[i].aircraftregistration = out[j].aircraftregistration
                     /\ out[i].actualdeparture < out[j].actualdeparture)
                        => out[i].actualarrival <= out[j].actualdeparture
              /\ (p < Len(passes) /\ passes[p + 1].rule = "BR2") =>
                    /\ passes[p + 1].input = out
                    /\ passes[p + 1].output = out

\* Rule 2 has excluded two flights of a chain of three, the first of which
\* overlapped both others, and a second pass has returned the rest as is.
C28_Witness ==
    /\ Len(passes) = 2
    /\ passes[1].rule = "BR2" /\ passes[2].rule = "BR2"
    /\ Len(passes[1].input) = 3
    /\ Timed(passes[1].input)
    /\ passes[1].input[1].actualarrival > passes[1].input[2].actualdeparture
    /\ passes[1].input[1].actualarrival > passes[1].input[3].actualdeparture
    /\ passes[1].input[1].actualdeparture < passes[1].input[2].actualdeparture
    /\ Len(passes[1].output) = 1
    /\ passes[2].output = passes[1].output

(***************************************************************************)
(* Further claims on the aggregators' output (SpecAgg).                     *)
(***************************************************************************)
\* C26: every row of the monthly snapshot satisfies the CHECK constraints of
\* Aircraft_Monthly_Summary (ADIS, ADOSS and ADOSU not negative), however
\* many maintenance windows the aircraft has in the month.
C26_MonthlyRowsPassChecks ==
    facts.kind = "ams" =>
        \A k \in 1..Len(facts.rows) : check("Aircraft_Monthly_Summary", facts.rows[k])

\* C29: in every row of the daily aggregation the counts and the delay
\* minutes are not negative, and the row of a (date, aircraft) pair has
\* Takeoffs + CFC equal to the number of flights of the pair.
C29_EveryFlightCountedOnce ==
    facts.kind = "fod" =>
        /\ \A k \in 1..Len(facts.rows) :
              /\ facts.rows[k].Takeoffs >= 0
              /\ facts.rows[k].CFC >= 0
              /\ facts.rows[k].DFC >= 0
              /\ facts.rows[k].TDM >= 0
              /\ facts.rows[k].Takeoffs + facts.rows[k].CFC >= 1
        /\ \A g \in Resolvable :
              \A k \in RowsOf(g) :
                  facts.rows[k].Takeoffs + facts.rows[k].CFC = Cardinality(DailyMembers(g))
        /\ Total([k \in 1..Len(facts.rows) |-> facts.rows[k].Takeoffs + facts.rows[k].CFC],
                 1..Len(facts.rows))
              = Cardinality(daily_grouped(heap[flights_df]))

\* A flown flight and a flight without a recorded departure of one day and
\* aircraft came out as one row with one takeoff and one cancellation.
C29_Witness ==
    /\ facts.kind = "fod"
    /\ heap[flights_df] = NumberFlights0(<<OnTime("AB1", Jan15), NoDeparture>>)
    /\ Resolvable = {1}
    /\ Len(facts.rows) = 1
    /\ facts.rows[1].Takeoffs = 1
    /\ facts.rows[1].CFC = 1

\* C30: in every row of the daily aggregation DFC <= Takeoffs, and a row made
\* of cancelled flights and flights without an actual departure only has no
\* delayed flight and no delay minutes.
C30_DelaysAmongTakeoffs ==
    facts.kind = "fod" =>
        \A k \in 1..Len(facts.rows) :
            /\ facts.rows[k].DFC <= facts.rows[k].Takeoffs
            /\ facts.rows[k].Takeoffs = 0 => facts.rows[k].TDM = 0

====
